---- MODULE Spec2Model ----
(***************************************************************************)
(* A model of TigerCache: the tokeniser, the string interner, the index    *)
(* core, the ranker, the size-bounded LRU, the key/value storage engines   *)
(* with their transaction handles, and the TigerCache facade.              *)
(*                                                                         *)
(* Strings are sequences of one-character strings, so that document ids,   *)
(* tokens and trigrams share one interner as they do in the source.        *)
(* Scores are exact rationals scaled by ScoreScale (f64 rounding is not    *)
(* modelled).  Hash-map iteration order is fixed to one order (SetToSeq).  *)
(***************************************************************************)
EXTENDS Integers, Sequences, FiniteSets, TLC

VARIABLES
    index,            \* TigerCache.index : Index
    storage,          \* TigerCache.storage : the engine's kind and its key/value data
    document_cache,   \* TigerCache.document_cache : LruCache or NoCache
    query_cache,      \* TigerCache.query_cache : LruCache or NoCache
    last,             \* the last call: its name, arguments and return value
    pre,              \* the index as it was when the last call started
    hist,             \* the index mutations applied since the index was last empty
    ops,              \* number of calls made so far
    txn,              \* the storage transaction handle under test (SpecTxn)
    path,             \* TigerCache.path
    files,            \* the file system: what each path holds
    closed,           \* close() has been called on this instance
    lru,              \* an LruCache on its own (SpecLru)
    interner,         \* a StringInterner on its own (SpecIntern)
    config,           \* TigerCache.config : the options the instance was built with
    threads,          \* the callers running concurrently: their positions and locals
    memory_manager    \* TigerCache.memory_manager, or a MemoryManager on its own (SpecMem)

vars == <<index, storage, document_cache, query_cache, last, pre, hist, ops, txn,
          path, files, closed, lru, interner, config, threads, memory_manager>>

-----------------------------------------------------------------------------
(* Bounds of the model                                                     *)

\* calls made on one facade instance
MaxOps == 4
\* mutations applied to one bare Index
MaxIndexOps == 3
\* operations issued on one storage engine and its transaction handle
MaxTxnOps == 4
\* calls made on the LruCache under SpecLru
MaxLruOps == 5
\* characters of a token given to generate_trigrams under SpecTrigram
MaxTokenLen == 4
\* calls made on the StringInterner under SpecIntern
MaxInternOps == 4
MaxMemOps == 4
MaxEvictOps == 3
MaxPageOps == 4
MaxEngineOps == 4
MaxLockOps == 3

-----------------------------------------------------------------------------
(* Generic helpers                                                         *)

None == [none |-> TRUE]
Some(v) == [some |-> v]
IsSome(o) == "some" \in DOMAIN o

EmptyMap == << >>
MapPut(f, k, v) == [x \in (DOMAIN f) \cup {k} |-> IF x = k THEN v ELSE f[x]]
MapDrop(f, k) == [x \in (DOMAIN f) \ {k} |-> f[x]]
MapGet(f, k) == IF k \in DOMAIN f THEN Some(f[k]) ELSE None

Max(a, b) == IF a >= b THEN a ELSE b

RECURSIVE SetToSeq(_)
\* One fixed iteration order of a hash set or hash map key set.
SetToSeq(S) ==
    IF S = {} THEN << >>
    ELSE LET x == CHOOSE y \in S : TRUE IN <<x>> \o SetToSeq(S \ {x})

RECURSIVE SeqSum(_)
SeqSum(s) == IF s = << >> THEN 0 ELSE Head(s) + SeqSum(Tail(s))

Range(s) == {s[i] : i \in DOMAIN s}

-----------------------------------------------------------------------------
(* trigram.rs : normalisation, tokens, trigrams                            *)

Letters == {"a", "b", "c", "x", "y"}
Uppers == {"A", "B"}

IsAlphanumeric(c) == c \in Letters \cup Uppers
IsWhitespace(c) == c = " "

ToLowercase(c) == CASE c = "A" -> "a" [] c = "B" -> "b" [] OTHER -> c

RECURSIVE TrimStart(_)
TrimStart(s) ==
    IF s # << >> /\ IsWhitespace(Head(s)) THEN TrimStart(Tail(s)) ELSE s

RECURSIVE TrimEnd(_)
TrimEnd(s) ==
    IF s # << >> /\ IsWhitespace(s[Len(s)]) THEN TrimEnd(SubSeq(s, 1, Len(s) - 1)) ELSE s

\* filter(alphanumeric or whitespace) . to_lowercase . trim
normalize_text(text) ==
    LET kept == SelectSeq(text, LAMBDA c : IsAlphanumeric(c) \/ IsWhitespace(c))
        lowered == [i \in 1..Len(kept) |-> ToLowercase(kept[i])]
    IN TrimEnd(TrimStart(lowered))

RECURSIVE SplitWhitespace(_, _)
\* str::split_whitespace: the maximal runs of non-whitespace, in order.
SplitWhitespace(s, cur) ==
    IF s = << >> THEN (IF cur = << >> THEN << >> ELSE <<cur>>)
    ELSE IF IsWhitespace(Head(s))
         THEN (IF cur = << >> THEN << >> ELSE <<cur>>) \o SplitWhitespace(Tail(s), << >>)
         ELSE SplitWhitespace(Tail(s), Append(cur, Head(s)))

extract_tokens(text) == SplitWhitespace(normalize_text(text), << >>)

\* the windows of a token padded with one "$" only at the start
TrigramWindowsShortPad(text) ==
    LET normalized == normalize_text(text)
        padded == <<"$">> \o normalized \o <<"$">>
    IN IF normalized = << >> THEN << >>
       ELSE [i \in 1..(Len(padded) - 2) |-> SubSeq(padded, i, i + 2)]

\* the trigrams the loop of generate_trigrams inserts, in order:
\* for i in 0..chars.len().saturating_sub(2)
TrigramWindows(text) ==
    LET normalized == normalize_text(text)
        padded == <<"$", "$">> \o normalized \o <<"$">>
    IN IF normalized = << >> THEN << >>
       ELSE [i \in 1..(Len(padded) - 2) |-> SubSeq(padded, i, i + 2)]

\* generate_trigrams : the HashSet of the windows
generate_trigrams(text) == Range(TrigramWindows(text))

RECURSIVE levenshtein(_, _)
\* the levenshtein crate: edit distance over chars
levenshtein(a, b) ==
    IF a = << >> THEN Len(b)
    ELSE IF b = << >> THEN Len(a)
    ELSE LET sub == levenshtein(Tail(a), Tail(b)) + (IF Head(a) = Head(b) THEN 0 ELSE 1)
             del == levenshtein(Tail(a), b) + 1
             ins == levenshtein(a, Tail(b)) + 1
             m1 == IF sub <= del THEN sub ELSE del
         IN IF m1 <= ins THEN m1 ELSE ins

\* String ordering (Ord for String compares bytes lexicographically).
CharRank(c) ==
    CASE c = " " -> 0 [] c = "$" -> 1 [] c = "A" -> 2 [] c = "B" -> 3
      [] c = "a" -> 4 [] c = "b" -> 5 [] c = "c" -> 6 [] c = "x" -> 7
      [] c = "y" -> 8 [] OTHER -> 9

RECURSIVE StrLess(_, _)
StrLess(a, b) ==
    IF b = << >> THEN FALSE
    ELSE IF a = << >> THEN TRUE
    ELSE IF Head(a) = Head(b) THEN StrLess(Tail(a), Tail(b))
    ELSE CharRank(Head(a)) < CharRank(Head(b))

-----------------------------------------------------------------------------
(* intern.rs : StringInterner                                              *)

InternerNew == [string_to_id |-> EmptyMap, id_to_string |-> EmptyMap, next_id |-> 0]

\* an intern that records the string but not the reverse mapping
InternForwardOnly(int, s) ==
    IF s \in DOMAIN int.string_to_id THEN int
    ELSE [string_to_id |-> MapPut(int.string_to_id, s, int.next_id),
          id_to_string |-> int.id_to_string,
          next_id |-> int.next_id + 1]

\* The interner after intern(s).
Intern(int, s) ==
    IF s \in DOMAIN int.string_to_id THEN int
    ELSE [string_to_id |-> MapPut(int.string_to_id, s, int.next_id),
          id_to_string |-> MapPut(int.id_to_string, int.next_id, s),
          next_id |-> int.next_id + 1]

\* The id intern(s) returns.
InternId(int, s) ==
    IF s \in DOMAIN int.string_to_id THEN int.string_to_id[s] ELSE int.next_id

InternerGet(int, id) == MapGet(int.id_to_string, id)
InternerGetId(int, s) == MapGet(int.string_to_id, s)

\* a clear that empties both maps but keeps the counter
InternerClearKeepCounter(int) ==
    [string_to_id |-> EmptyMap, id_to_string |-> EmptyMap, next_id |-> int.next_id]

\* StringInterner::clear
InternerClear(int) == InternerNew

\* StringInterner::len
InternerLen(int) == Cardinality(DOMAIN int.string_to_id)

-----------------------------------------------------------------------------
(* document.rs : Document                                                  *)

\* A field value is a serde_json::Value: kind is its arm, text is the string
\* itself for the String arm and the JSON rendering (to_string) otherwise.
TextValue(s) == [kind |-> "string", text |-> s]
ArrayValue(json) == [kind |-> "array", text |-> json]

Document(id, fields) == [id |-> id, fields |-> fields]

get_text_field(document, name) ==
    IF name \in DOMAIN document.fields THEN Some(document.fields[name].text) ELSE None

get_all_text_fields(document) ==
    {document.fields[n].text :
        n \in {m \in DOMAIN document.fields :
                 document.fields[m].kind \notin {"array", "object"}}}

-----------------------------------------------------------------------------
(* index.rs : Index                                                        *)

IndexNew ==
    [documents |-> EmptyMap, inverted_index |-> EmptyMap, trigram_index |-> EmptyMap,
     interner |-> InternerNew, indexed_fields |-> << >>]

set_indexed_fields(idx, fields) == [idx EXCEPT !.indexed_fields = fields]

\* entry(k).or_insert_with(SmallVec::new).push(v)
PushEntry(m, k, v) == MapPut(m, k, Append(IF k \in DOMAIN m THEN m[k] ELSE << >>, v))

\* all_tokens built from every text field, whatever indexed_fields says
DocumentTokensAllFields(idx, document) ==
    UNION {Range(extract_tokens(t)) : t \in get_all_text_fields(document)}

\* The set all_tokens built from the indexed fields of a document.
DocumentTokens(idx, document) ==
    LET texts ==
            IF idx.indexed_fields = << >> THEN get_all_text_fields(document)
            ELSE {document.fields[n].text :
                    n \in Range(idx.indexed_fields) \cap DOMAIN document.fields}
    IN UNION {Range(extract_tokens(t)) : t \in texts}

RECURSIVE IndexTrigrams(_, _, _)
\* for trigram in trigrams { intern; trigram_index.entry(trigram_id).push(token_id) }
IndexTrigrams(idx, token_id, trigrams) ==
    IF trigrams = << >> THEN idx
    ELSE LET trigram_id == InternId(idx.interner, Head(trigrams))
             next == [idx EXCEPT
                        !.interner = Intern(idx.interner, Head(trigrams)),
                        !.trigram_index = PushEntry(idx.trigram_index, trigram_id, token_id)]
         IN IndexTrigrams(next, token_id, Tail(trigrams))

RECURSIVE IndexTokens(_, _, _)
\* for token in all_tokens { intern; inverted_index.entry(token_id).push(doc_id); trigrams }
IndexTokens(idx, doc_id, tokens) ==
    IF tokens = << >> THEN idx
    ELSE LET token == Head(tokens)
             token_id == InternId(idx.interner, token)
             next == [idx EXCEPT
                        !.interner = Intern(idx.interner, token),
                        !.inverted_index = PushEntry(idx.inverted_index, token_id, doc_id)]
         IN IndexTokens(IndexTrigrams(next, token_id, SetToSeq(generate_trigrams(token))),
                        doc_id, Tail(tokens))

\* Index::add_document (always Ok)
IndexAddDocument(idx, document) ==
    LET doc_id == InternId(idx.interner, document.id)
        interned == [idx EXCEPT !.interner = Intern(idx.interner, document.id)]
        indexed == IndexTokens(interned, doc_id, SetToSeq(DocumentTokens(idx, document)))
    IN [indexed EXCEPT !.documents = MapPut(indexed.documents, doc_id, document)]

RECURSIVE BatchIndexTokens(_, _, _)
\* The sequential pass of add_documents_batch over (doc id, tokens) pairs.
BatchIndexTokens(idx, fields_idx, documents) ==
    IF documents = << >> THEN idx
    ELSE LET document == Head(documents)
             doc_id == InternId(idx.interner, document.id)
             interned == [idx EXCEPT !.interner = Intern(idx.interner, document.id)]
         IN BatchIndexTokens(
                IndexTokens(interned, doc_id, SetToSeq(DocumentTokens(fields_idx, document))),
                fields_idx, Tail(documents))

RECURSIVE BatchStoreDocumentsKeepFirst(_, _)
\* a store pass in which an id already stored is not overwritten
BatchStoreDocumentsKeepFirst(idx, documents) ==
    IF documents = << >> THEN idx
    ELSE LET document == Head(documents)
             doc_id == InternId(idx.interner, document.id)
         IN BatchStoreDocumentsKeepFirst(
                [idx EXCEPT !.interner = Intern(idx.interner, document.id),
                            !.documents = IF doc_id \in DOMAIN idx.documents
                                          THEN idx.documents
                                          ELSE MapPut(idx.documents, doc_id, document)],
                Tail(documents))

RECURSIVE BatchStoreDocuments(_, _)
\* for document in documents { documents.insert(intern(id), document) }
BatchStoreDocuments(idx, documents) ==
    IF documents = << >> THEN idx
    ELSE LET document == Head(documents)
             doc_id == InternId(idx.interner, document.id)
         IN BatchStoreDocuments(
                [idx EXCEPT !.interner = Intern(idx.interner, document.id),
                            !.documents = MapPut(idx.documents, doc_id, document)],
                Tail(documents))

\* Index::add_documents_batch (always Ok)
IndexAddDocumentsBatch(idx, documents) ==
    BatchStoreDocuments(BatchIndexTokens(idx, idx, documents), documents)

\* remove_document that looks the id up in the interner only
IndexRemoveOkInternedOnly(idx, doc_id) ==
    doc_id \in DOMAIN idx.interner.string_to_id

\* Whether Index::remove_document(doc_id) returns Ok
IndexRemoveOk(idx, doc_id) ==
    /\ doc_id \in DOMAIN idx.interner.string_to_id
    /\ idx.interner.string_to_id[doc_id] \in DOMAIN idx.documents

\* remove_document that drops the document but leaves the postings alone
IndexRemoveDocumentKeepPostings(idx, doc_id) ==
    IF ~IndexRemoveOk(idx, doc_id) THEN idx
    ELSE [idx EXCEPT !.documents = MapDrop(idx.documents, idx.interner.string_to_id[doc_id])]

\* remove_document without the clean-up of postings that became empty
IndexRemoveDocumentKeepEmpty(idx, doc_id) ==
    IF ~IndexRemoveOk(idx, doc_id) THEN idx
    ELSE LET id == idx.interner.string_to_id[doc_id]
         IN [idx EXCEPT !.inverted_index =
                            [t \in DOMAIN idx.inverted_index |->
                                SelectSeq(idx.inverted_index[t], LAMBDA d : d # id)],
                        !.documents = MapDrop(idx.documents, id)]

\* remove_document that swaps the two oldest entries of the postings it keeps
IndexRemoveDocumentReorder(idx, doc_id) ==
    IF ~IndexRemoveOk(idx, doc_id) THEN idx
    ELSE LET id == idx.interner.string_to_id[doc_id]
             retained == [t \in DOMAIN idx.inverted_index |->
                            SelectSeq(idx.inverted_index[t], LAMBDA d : d # id)]
             live == {t \in DOMAIN retained : retained[t] # << >>}
             swapped(p) == IF Len(p) < 2 THEN p ELSE <<p[2], p[1]>> \o SubSeq(p, 3, Len(p))
         IN [idx EXCEPT !.inverted_index = [t \in live |-> swapped(retained[t])],
                        !.documents = MapDrop(idx.documents, id)]

\* Index::remove_document: the index afterwards (unchanged on DocumentNotFound)
IndexRemoveDocument(idx, doc_id) ==
    IF ~IndexRemoveOk(idx, doc_id) THEN idx
    ELSE LET id == idx.interner.string_to_id[doc_id]
             retained == [t \in DOMAIN idx.inverted_index |->
                            SelectSeq(idx.inverted_index[t], LAMBDA d : d # id)]
             live == {t \in DOMAIN retained : retained[t] # << >>}
         IN [idx EXCEPT !.inverted_index = [t \in live |-> retained[t]],
                        !.documents = MapDrop(idx.documents, id)]

\* Index::get_document
IndexGetDocument(idx, doc_id) ==
    IF doc_id \in DOMAIN idx.interner.string_to_id
    THEN MapGet(idx.documents, idx.interner.string_to_id[doc_id])
    ELSE None

document_count(idx) == Cardinality(DOMAIN idx.documents)

\* Index::find_candidate_tokens
find_candidate_tokens(idx, query) ==
    LET query_tokens == Range(extract_tokens(normalize_text(query)))
        trigram_ids ==
            {idx.interner.string_to_id[g] :
                g \in (UNION {generate_trigrams(q) : q \in query_tokens})
                        \cap DOMAIN idx.interner.string_to_id}
        token_ids ==
            UNION {Range(idx.trigram_index[g]) : g \in trigram_ids \cap DOMAIN idx.trigram_index}
    IN {idx.interner.id_to_string[t] : t \in token_ids \cap DOMAIN idx.interner.id_to_string}

\* Index::get_documents_for_token : the posting as a sequence of doc id strings
get_documents_for_token(idx, token) ==
    IF token \in DOMAIN idx.interner.string_to_id
       /\ idx.interner.string_to_id[token] \in DOMAIN idx.inverted_index
    THEN LET posting == idx.inverted_index[idx.interner.string_to_id[token]]
             known == SelectSeq(posting, LAMBDA d : d \in DOMAIN idx.interner.id_to_string)
         IN [i \in 1..Len(known) |-> idx.interner.id_to_string[known[i]]]
    ELSE << >>

\* Index::clear (indexed_fields is kept)
IndexClear(idx) ==
    [idx EXCEPT !.documents = EmptyMap, !.inverted_index = EmptyMap,
                !.trigram_index = EmptyMap, !.interner = InternerClear(idx.interner)]


-----------------------------------------------------------------------------
(* search.rs : SearchOptions and the ranker                                *)

SearchOptions(max_distance, score_threshold, limit) ==
    [max_distance |-> max_distance, score_threshold |-> score_threshold, limit |-> limit]

DefaultMaxDistance == 2
DefaultScoreThreshold == 0
DefaultLimit == 100

\* impl Default for SearchOptions
DefaultSearchOptions ==
    SearchOptions(DefaultMaxDistance, DefaultScoreThreshold, DefaultLimit)

\* Scores are kept as integers: score * ScoreScale.  ScoreScale is a multiple
\* of (distance + 1) * total_trigrams for every distance <= 2 and every token
\* of at most 5 characters, so that token scores are exact.
ScoreScale == 5 * 8 * 9

\* trigram_score >= 0.2, with trigram_score = overlap / total
OverlapOk(overlap, total) == 5 * overlap >= total

\* What the ranker computes for a candidate c of a query token.
CandidateEntry(query_trigrams, candidate_trigrams, distance) ==
    [distance |-> distance,
     overlap |-> Cardinality(query_trigrams \cap candidate_trigrams),
     total |-> Max(Cardinality(query_trigrams), Cardinality(candidate_trigrams))]

\* total_trigrams > 0, trigram_score >= 0.2 and distance <= max_distance + 1
KeepCandidate(e, max_distance) ==
    /\ e.total > 0
    /\ OverlapOk(e.overlap, e.total)
    /\ e.distance <= max_distance + 1

EntriesOf(query_token, candidates) ==
    [c \in candidates |->
        CandidateEntry(generate_trigrams(query_token), generate_trigrams(c),
                       levenshtein(query_token, c))]

KeptEntries(entries, max_distance) ==
    [c \in {k \in DOMAIN entries : KeepCandidate(entries[k], max_distance)} |-> entries[c]]

\* One query token's pass over its candidates: the entries it inserts into
\* candidate_scores (candidate -> (distance, overlap, total)).
ScoreCandidates(idx, query_token, max_distance) ==
    KeptEntries(EntriesOf(query_token, find_candidate_tokens(idx, query_token)), max_distance)

\* FxHashMap::insert of every entry of new: a later insert overwrites.
MergeScores(acc, new) ==
    [c \in (DOMAIN acc) \cup (DOMAIN new) |-> IF c \in DOMAIN new THEN new[c] ELSE acc[c]]

RECURSIVE CandidateScores(_, _, _, _)
\* candidate_scores after all query tokens
CandidateScores(idx, query_tokens, max_distance, acc) ==
    IF query_tokens = << >> THEN acc
    ELSE CandidateScores(idx, Tail(query_tokens), max_distance,
                         MergeScores(acc, ScoreCandidates(idx, Head(query_tokens), max_distance)))

\* filtered_tokens: the candidates with distance <= max_distance
FilterCandidates(candidate_scores, max_distance) ==
    [c \in {k \in DOMAIN candidate_scores : candidate_scores[k].distance <= max_distance}
        |-> candidate_scores[c]]

\* token_score of a filtered candidate, times ScoreScale
TokenScore(e) ==
    ((ScoreScale * (e.total + e.overlap)) \div ((e.distance + 1) * e.total))
        * (IF e.distance = 0 THEN 5 ELSE 1)

\* number of occurrences of x in sequence s
Count(s, x) == Len(SelectSeq(s, LAMBDA y : y = x))

\* The score document d accumulates over the filtered tokens (in sequence).
AccumulatedScore(postings, filtered, tokens, d) ==
    SeqSum([i \in 1..Len(tokens) |->
              Count(postings[tokens[i]], d) * TokenScore(filtered[tokens[i]])])

ScoresFromPostings(postings, filtered) ==
    [d \in UNION {Range(postings[t]) : t \in DOMAIN postings} |->
        AccumulatedScore(postings, filtered, SetToSeq(DOMAIN filtered), d)]

\* document_scores: doc id string -> accumulated score (times ScoreScale)
DocumentScores(idx, filtered) ==
    ScoresFromPostings([t \in DOMAIN filtered |-> get_documents_for_token(idx, t)], filtered)

\* a sort_by that breaks ties by descending document id
ResultBeforeIdDescending(a, b) ==
    \/ a.score > b.score
    \/ a.score = b.score /\ StrLess(b.document.id, a.document.id)

\* results.sort_by: score descending, then document id ascending
ResultBefore(a, b) ==
    \/ a.score > b.score
    \/ a.score = b.score /\ StrLess(a.document.id, b.document.id)

RECURSIVE SortResults(_)
SortFrom(first, S) == <<first>> \o SortResults(S \ {first})

SortResults(S) ==
    IF S = {} THEN << >>
    ELSE SortFrom(CHOOSE r \in S : \A o \in S \ {r} : ResultBefore(r, o), S)

\* The filter_map of search_internal: drop scores below the threshold
\* (score_threshold / 1000 as f64) and ids get_document does not find.
PassingResults(idx, document_scores, score_threshold) ==
    {[document |-> IndexGetDocument(idx, d).some, score |-> document_scores[d]] :
        d \in {k \in DOMAIN document_scores :
                 /\ ~(document_scores[k] * 1000 < score_threshold * ScoreScale)
                 /\ IsSome(IndexGetDocument(idx, k))}}

\* results.truncate(limit)
Truncate(results, limit) ==
    IF Len(results) > limit THEN SubSeq(results, 1, limit) ELSE results

\* Index::search_internal; score_threshold is the u32 of SearchOptions.
search_internal(idx, query, options) ==
    IF extract_tokens(query) = << >> THEN << >>
    ELSE Truncate(
            SortResults(
                PassingResults(idx,
                    DocumentScores(idx,
                        FilterCandidates(
                            CandidateScores(idx, extract_tokens(query),
                                            options.max_distance, EmptyMap),
                            options.max_distance)),
                    options.score_threshold)),
            options.limit)

\* Index::search : options is None or Some(SearchOptions)
IndexSearch(idx, query, options) ==
    search_internal(idx, query, IF IsSome(options) THEN options.some ELSE DefaultSearchOptions)


-----------------------------------------------------------------------------
(* cache/lru_cache.rs : LruCache                                           *)

SatSub(a, b) == IF a >= b THEN a - b ELSE 0

\* usize::MAX.  The width of usize is the target's; the model takes 16 bits,
\* the narrowest, and saturation and wrapping are the same at every width.
UsizeMax == 65535

\* usize::saturating_add
SatAdd(a, b) == IF a + b > UsizeMax THEN UsizeMax ELSE a + b

\* a + b on usize in a build without overflow checks
WrapAdd(a, b) == (a + b) % (UsizeMax + 1)

\* LruCache::new.  clock is the value the next Instant::now() returns.
LruNew(max_size) ==
    [entries |-> EmptyMap, max_size |-> max_size, current_size |-> 0,
     hits |-> 0, misses |-> 0, clock |-> 0]

\* LruCache::get : the cache afterwards
LruGet(c, key) ==
    IF key \in DOMAIN c.entries
    THEN [c EXCEPT !.entries[key].last_access = c.clock,
                   !.entries[key].ref_count = @ + 1,
                   !.hits = @ + 1,
                   !.clock = @ + 1]
    ELSE [c EXCEPT !.misses = @ + 1]

\* LruCache::get : the value returned
LruGetValue(c, key) ==
    IF key \in DOMAIN c.entries THEN Some(c.entries[key].value) ELSE None

RECURSIVE EvictKeysPinnedToo(_, _, _, _)
\* a loop that does not skip the entries with a reference count
EvictKeysPinnedToo(c, sorted, freed, size_to_free) ==
    IF sorted = << >> THEN {}
    ELSE LET e == c.entries[Head(sorted)]
         IN IF WrapAdd(freed, e.size) >= size_to_free
            THEN {Head(sorted)}
            ELSE {Head(sorted)}
                   \cup EvictKeysPinnedToo(c, Tail(sorted), WrapAdd(freed, e.size), size_to_free)

RECURSIVE EvictKeys(_, _, _, _)
\* The loop of evict_entries over the entries sorted by last_access: the keys
\* pushed to keys_to_remove.
EvictKeys(c, sorted, freed, size_to_free) ==
    IF sorted = << >> THEN {}
    ELSE LET e == c.entries[Head(sorted)]
         IN IF e.ref_count > 0
            THEN EvictKeys(c, Tail(sorted), freed, size_to_free)
            ELSE IF WrapAdd(freed, e.size) >= size_to_free
                 THEN {Head(sorted)}
                 ELSE {Head(sorted)}
                        \cup EvictKeys(c, Tail(sorted), WrapAdd(freed, e.size), size_to_free)

RECURSIVE FreedOverflows(_, _, _, _)
\* The loop of evict_entries: freed_size += entry.size leaves usize before the
\* loop ends.
FreedOverflows(c, sorted, freed, size_to_free) ==
    IF sorted = << >> THEN FALSE
    ELSE LET e == c.entries[Head(sorted)]
         IN IF e.ref_count > 0
            THEN FreedOverflows(c, Tail(sorted), freed, size_to_free)
            ELSE \/ freed + e.size > UsizeMax
                 \/ /\ freed + e.size < size_to_free
                    /\ FreedOverflows(c, Tail(sorted), freed + e.size, size_to_free)

RECURSIVE SortByLastAccessNewestFirst(_, _)
\* the entries sorted by last_access, newest first
SortByLastAccessNewestFirst(c, keys) ==
    IF keys = {} THEN << >>
    ELSE LET k == CHOOSE x \in keys :
                    \A y \in keys : c.entries[x].last_access >= c.entries[y].last_access
         IN <<k>> \o SortByLastAccessNewestFirst(c, keys \ {k})

RECURSIVE SortByLastAccess(_, _)
\* sorted_entries.sort_by(last_access): oldest first
SortByLastAccess(c, keys) ==
    IF keys = {} THEN << >>
    ELSE LET k == CHOOSE x \in keys :
                    \A y \in keys : c.entries[x].last_access <= c.entries[y].last_access
         IN <<k>> \o SortByLastAccess(c, keys \ {k})

\* LruCache::evict_entries
evict_entries(c, needed_size) ==
    LET target_size == SatSub(c.max_size, needed_size)
        size_to_free == SatSub(c.current_size, target_size)
        gone == EvictKeys(c, SortByLastAccess(c, DOMAIN c.entries), 0, size_to_free)
        freed == SeqSum([i \in 1..Len(SetToSeq(gone)) |-> c.entries[SetToSeq(gone)[i]].size])
    IN IF size_to_free = 0 THEN c
       ELSE [c EXCEPT !.entries = [k \in (DOMAIN c.entries) \ gone |-> c.entries[k]],
                      !.current_size = SatSub(c.current_size, freed)]

\* LruCache::put : the cache afterwards
LruPut(c, key, value, size) ==
    IF key \in DOMAIN c.entries
    THEN [c EXCEPT !.entries[key].value = value,
                   !.entries[key].size = size,
                   !.entries[key].last_access = c.clock,
                   !.current_size = SatAdd(SatSub(c.current_size, c.entries[key].size), size),
                   !.clock = @ + 1]
    ELSE LET room == IF WrapAdd(c.current_size, size) > c.max_size
                     THEN evict_entries(c, size) ELSE c
         IN [room EXCEPT
                !.entries = MapPut(room.entries, key,
                                   [value |-> value, size |-> size,
                                    last_access |-> c.clock, ref_count |-> 0]),
                !.current_size = SatAdd(room.current_size, size),
                !.clock = @ + 1]

\* LruCache::put in a build with overflow checks: *current_size + size or
\* freed_size += entry.size panics.  Nothing was changed by then.
LruPutPanics(c, key, size) ==
    /\ key \notin DOMAIN c.entries
    /\ \/ c.current_size + size > UsizeMax
       \/ /\ c.current_size + size > c.max_size
          /\ SatSub(c.current_size, SatSub(c.max_size, size)) > 0
          /\ FreedOverflows(c, SortByLastAccess(c, DOMAIN c.entries), 0,
                            SatSub(c.current_size, SatSub(c.max_size, size)))

\* LruCache::remove
LruRemove(c, key) ==
    IF key \in DOMAIN c.entries
    THEN [c EXCEPT !.entries = MapDrop(c.entries, key),
                   !.current_size = SatSub(c.current_size, c.entries[key].size)]
    ELSE c

\* LruCache::clear
LruClear(c) == [c EXCEPT !.entries = EmptyMap, !.current_size = 0]

\* no concurrent callers
NoThreads == [absent |-> TRUE]

-----------------------------------------------------------------------------
(* storage/*_engine.rs : the page cache of the file-backed engines          *)

\* The engines with a page cache in front of a page table.
PageEngineKinds == {"redb", "rocksdb", "sled", "sqlite"}

\* get_page of the Redb and RocksDB engines keeps the read guard of
\* page_cache until it returns; Sled and SQLite drop it after the lookup.
KeepsReadGuard(kind) == kind \in {"redb", "rocksdb"}

\* get_page of the SQLite engine holds the connection mutex from the load to
\* its return.
LocksConnection(kind) == kind = "sqlite"

\* An engine opened on a database that holds the pages of disk: the page table,
\* the page cache (page id -> PageRef), the pages behind the PageRefs handed
\* out so far, the RwLock of page_cache and the connection mutex.
PageEngineOpen(kind, disk) ==
    [kind |-> kind, data |-> EmptyMap, pages |-> disk, page_cache |-> EmptyMap,
     refs |-> << >>, readers |-> {}, writer |-> "none", conn |-> "none"]

\* parking_lot RwLock::read succeeds while no writer holds the lock
CanRead(e) == e.writer = "none"

\* RwLock::write succeeds while nobody holds the lock, in either mode; the
\* lock does not know that a reader is the caller itself
CanWrite(e) == e.writer = "none" /\ e.readers = {}

\* page_cache.get(&page_id) under the read guard
CachedPage(e, page_id) == MapGet(e.page_cache, page_id)

\* the lookup missed: the guard is kept or dropped
AfterMiss(e, t) ==
    IF KeepsReadGuard(e.kind) THEN [e EXCEPT !.readers = @ \cup {t}] ELSE e

\* the load from the page table: a new Arc<RwLock<Page>> holding the decoded
\* page, clean
LoadPage(e, t, page_id) ==
    [e EXCEPT !.refs = Append(@, [id |-> page_id, data |-> e.pages[page_id], dirty |-> FALSE]),
              !.conn = IF LocksConnection(e.kind) THEN t ELSE @]

\* the load found no page: Ok(None), every guard dropped
LoadNothing(e, t) == [e EXCEPT !.readers = @ \ {t}]

\* page_cache.write().insert(page_id, page_ref), then the return of get_page
InsertPage(e, t, page_id, ref) ==
    [e EXCEPT !.page_cache = MapPut(@, page_id, ref),
              !.readers = @ \ {t},
              !.conn = IF @ = t THEN "none" ELSE @]

\* a holder of a PageRef writes the page and marks it dirty
WritePage(e, ref, data) == [e EXCEPT !.refs[ref].data = data, !.refs[ref].dirty = TRUE]

\* flush of Sled and SQLite: every dirty page of the page cache goes to the
\* page table and is marked clean.  Redb and RocksDB flush the database only.
FlushPages(e) ==
    IF KeepsReadGuard(e.kind) THEN e
    ELSE
    [e EXCEPT !.pages = [id \in DOMAIN e.pages \cup
                                  {k \in DOMAIN e.page_cache : e.refs[e.page_cache[k]].dirty}
                            |-> IF id \in DOMAIN e.page_cache /\ e.refs[e.page_cache[id]].dirty
                                THEN e.refs[e.page_cache[id]].data ELSE e.pages[id]],
              !.refs = [r \in DOMAIN e.refs |->
                          IF \E k \in DOMAIN e.page_cache : e.page_cache[k] = r
                          THEN [e.refs[r] EXCEPT !.dirty = FALSE] ELSE e.refs[r]]]

-----------------------------------------------------------------------------
(* u64 arithmetic: four base-65536 digits, least significant first          *)

U64Base == 65536
U64Digits == 4

\* the u64 of a number below U64Base * U64Base
U64(n) == <<n % U64Base, n \div U64Base, 0, 0>>
U64Zero == U64(0)

RECURSIVE DigitsLess(_, _, _)
\* a < b, comparing from digit i downwards
DigitsLess(a, b, i) ==
    IF i = 0 THEN FALSE
    ELSE IF a[i] # b[i] THEN a[i] < b[i]
    ELSE DigitsLess(a, b, i - 1)

U64Less(a, b) == DigitsLess(a, b, Len(a))

RECURSIVE MulDigits(_, _, _, _)
\* a * k for a small k, exact: one digit more than a
MulDigits(a, k, i, carry) ==
    IF i > Len(a) THEN <<carry>>
    ELSE <<(a[i] * k + carry) % U64Base>>
            \o MulDigits(a, k, i + 1, (a[i] * k + carry) \div U64Base)

WideMul(a, k) == MulDigits(a, k, 1, 0)

\* a * k does not fit in a u64
MulOverflows(a, k) == WideMul(a, k)[U64Digits + 1] # 0
\* a.wrapping_mul(k)
WrappingMul(a, k) == SubSeq(WideMul(a, k), 1, U64Digits)

RECURSIVE DivDigits(_, _, _, _)
\* a / k for a small k, from digit i downwards with remainder rem
DivDigits(a, k, i, rem) ==
    IF i = 0 THEN << >>
    ELSE DivDigits(a, k, i - 1, (rem * U64Base + a[i]) % k)
            \o <<(rem * U64Base + a[i]) \div k>>

U64Div(a, k) == DivDigits(a, k, Len(a), 0)

RECURSIVE AddDigits(_, _, _, _)
\* a + b, exact: one digit more than a
AddDigits(a, b, i, carry) ==
    IF i > Len(a) THEN <<carry>>
    ELSE <<(a[i] + b[i] + carry) % U64Base>>
            \o AddDigits(a, b, i + 1, (a[i] + b[i] + carry) \div U64Base)

AddOverflows(a, b) == AddDigits(a, b, 1, 0)[U64Digits + 1] # 0
WrappingAdd(a, b) == SubSeq(AddDigits(a, b, 1, 0), 1, U64Digits)

RECURSIVE SubDigits(_, _, _, _)
\* a - b for b <= a
SubDigits(a, b, i, borrow) ==
    IF i > Len(a) THEN << >>
    ELSE <<(a[i] - b[i] - borrow + U64Base) % U64Base>>
            \o SubDigits(a, b, i + 1, IF a[i] - b[i] - borrow < 0 THEN 1 ELSE 0)

\* a.saturating_sub(b)
SaturatingSub(a, b) == IF U64Less(a, b) THEN U64Zero ELSE SubDigits(a, b, 1, 0)

-----------------------------------------------------------------------------
(* cache/memory_manager.rs : MemoryManager                                 *)

NoManager == [absent |-> TRUE]
HasManager(m) == "max_memory" \in DOMAIN m

\* MemoryManager::new.  worker is the position of the thread start() spawns:
\* "none" (not spawned), "check" (at the loop test), "sleep" (in the loop
\* body), "exited" or "panicked".  overflow_checks is the build's setting.
MemoryManagerNew(max_memory, overflow_checks) ==
    [max_memory |-> max_memory,
     current_usage |-> U64Zero,
     stats |-> [current_usage |-> U64Zero, max_usage |-> max_memory,
                pressure_level |-> "Low"],
     events |-> << >>,
     running |-> TRUE,
     worker |-> "none",
     overflow_checks |-> overflow_checks]

\* MemoryManager::start : spawn the worker
ManagerStart(m) == [m EXCEPT !.worker = "check"]

\* MemoryManager::stop
ManagerStop(m) == [m EXCEPT !.running = FALSE]

\* max_memory.as_u64() * pct / 100
Threshold(max_memory, pct) == U64Div(WrappingMul(max_memory, pct), 100)

\* the pressure level the worker computes from usage
ComputedLevel(usage, max_memory) ==
    IF U64Less(Threshold(max_memory, 95), usage) THEN "Critical"
    ELSE IF U64Less(Threshold(max_memory, 80), usage) THEN "High"
    ELSE IF U64Less(Threshold(max_memory, 50), usage) THEN "Medium"
    ELSE "Low"

\* the events one sample sends
SampleEvents(m, level) ==
    (IF level # m.stats.pressure_level
     THEN <<[event |-> "PressureChanged", level |-> level]>> ELSE << >>)
    \o (IF U64Less(m.max_memory, m.current_usage)
        THEN <<[event |-> "MemoryExceeded", current |-> m.current_usage,
                max |-> m.max_memory],
               [event |-> "EvictionRequired",
                bytes_to_free |-> SaturatingSub(m.current_usage,
                                                Threshold(m.max_memory, 80))]>>
        ELSE << >>)

\* a loop test that does not read the flag
WorkerCheckIgnoreFlag(m) == [m EXCEPT !.worker = "sleep"]

\* the worker at the loop test: while *running.read()
WorkerCheck(m) == [m EXCEPT !.worker = IF m.running THEN "sleep" ELSE "exited"]

\* the loop body after the sleep: one sample.  max_memory * 95 is always
\* evaluated; with overflow checks an overflow panics the thread.
WorkerSample(m) ==
    IF m.overflow_checks /\ MulOverflows(m.max_memory, 95)
    THEN [m EXCEPT !.worker = "panicked"]
    ELSE [m EXCEPT
            !.stats = [@ EXCEPT !.current_usage = m.current_usage,
                                !.pressure_level =
                                    ComputedLevel(m.current_usage, m.max_memory)],
            !.events = @ \o SampleEvents(m, ComputedLevel(m.current_usage, m.max_memory)),
            !.worker = "check"]

\* MemoryManager::allocate.  The usage is written before the comparison; in a
\* build with overflow checks the addition panics before the write, and the
\* multiplication max_memory * 80 panics after MemoryExceeded was sent.
ManagerAllocate(m, size) ==
    IF m.overflow_checks /\ AddOverflows(m.current_usage, size) THEN m
    ELSE IF ~U64Less(m.max_memory, WrappingAdd(m.current_usage, size))
    THEN [m EXCEPT !.current_usage = WrappingAdd(m.current_usage, size)]
    ELSE [m EXCEPT
            !.current_usage = WrappingAdd(m.current_usage, size),
            !.events = @ \o <<[event |-> "MemoryExceeded",
                               current |-> WrappingAdd(m.current_usage, size),
                               max |-> m.max_memory]>>
                         \o (IF m.overflow_checks /\ MulOverflows(m.max_memory, 80) THEN << >>
                             ELSE <<[event |-> "EvictionRequired",
                                     bytes_to_free |->
                                        SaturatingSub(WrappingAdd(m.current_usage, size),
                                                      Threshold(m.max_memory, 80))]>>)]

\* what allocate returns: true, false, or a panic of the caller
ManagerAllocateResult(m, size) ==
    IF m.overflow_checks /\ AddOverflows(m.current_usage, size) THEN "panic"
    ELSE IF ~U64Less(m.max_memory, WrappingAdd(m.current_usage, size)) THEN "true"
    ELSE IF m.overflow_checks /\ MulOverflows(m.max_memory, 80) THEN "panic"
    ELSE "false"

\* MemoryManager::update_stats: the caller's MemoryStats replace the published
\* ones, pressure_level included, and StatsUpdated is sent
ManagerUpdateStats(m, stats) ==
    [m EXCEPT !.stats = stats,
              !.events = @ \o <<[event |-> "StatsUpdated", stats |-> stats]>>]

\* MemoryManager::free
ManagerFree(m, size) == [m EXCEPT !.current_usage = SaturatingSub(m.current_usage, size)]

\* storage.max_memory of StorageConfig::default() : 200 MiB
DefaultMaxMemory == U64(200 * 1024 * 1024)

\* TigerCacheConfig::default()
DefaultConfig == [enable_background_ops |-> TRUE]

\* with_config: MemoryManager::new(max_memory) followed by start()
StartedManager == ManagerStart(MemoryManagerNew(DefaultMaxMemory, FALSE))

-----------------------------------------------------------------------------
(* cache/document_cache.rs, cache/query_cache.rs                           *)

\* The facade has no cache when no storage engine is configured.
NoCache == [absent |-> TRUE]
HasCache(c) == "entries" \in DOMAIN c

\* size_of::<Document>() : a String and a HashMap
SizeOfDocument == 72
\* size_of::<Vec<SearchResult>>()
SizeOfVec == 24
\* size_of::<SearchResult>() : a Document, an f64 and a Vec
SizeOfSearchResult == 104
\* size_of::<f64>()
SizeOfF64 == 8

FieldSize(document, name) ==
    Len(name) + (CASE document.fields[name].kind = "string" -> Len(document.fields[name].text)
                   [] document.fields[name].kind = "array" -> SizeOfVec
                   [] OTHER -> SizeOfF64)

\* estimate_document_size (field names are TLA+ strings; Len is their length)
estimate_document_size(document) ==
    LET names == SetToSeq(DOMAIN document.fields)
    IN SizeOfDocument + Len(document.id)
         + SeqSum([i \in 1..Len(names) |-> FieldSize(document, names[i])])

estimate_results_size(results) ==
    SizeOfVec + SeqSum([i \in 1..Len(results) |->
                          SizeOfSearchResult + estimate_document_size(results[i].document)])

\* DocumentCache::put
DocumentCachePut(c, document) ==
    LruPut(c, document.id, document, estimate_document_size(document))

\* QueryKey
QueryKey(query, options) == [query |-> query, options |-> options]

\* QueryCache::put
QueryCachePut(c, query, options, results) ==
    LruPut(c, QueryKey(query, options), results, estimate_results_size(results))


-----------------------------------------------------------------------------
(* storage : the key/value engines and their transaction handles           *)

\* The engines whose key/value and transaction code is in the repository.
\* "memory" never fails; "sled" and "sqlite" may return an I/O error.
EngineKinds == {"memory", "sled", "sqlite"}
Fallible(kind) == kind \in {"sled", "sqlite"}

NoStorage == [kind |-> "none", data |-> EmptyMap]
\* create_storage_engine / MemoryStorageEngine::new etc.
EngineNew(kind) == [kind |-> kind, data |-> EmptyMap]

\* StorageEngine::get / exists / put / delete (the Ok case)
EngineGet(st, key) == MapGet(st.data, key)
EngineExists(st, key) == key \in DOMAIN st.data
EnginePut(st, key, value) == [st EXCEPT !.data = MapPut(st.data, key, value)]
EngineDelete(st, key) == [st EXCEPT !.data = MapDrop(st.data, key)]

\* the engine of the given kind created for config.path = p
EngineAt(kind, p) == [kind |-> kind, data |-> EmptyMap, path |-> Some(p)]
\* sled and SQLite keep their data at config.path; the memory engine keeps none
Persistent(kind) == kind \in {"sled", "sqlite"}

\* paths of the file system, and what a path can hold
Paths == {"p1", "p2"}
StoragePath == "p1"
NoFile == [kind |-> "none"]
NoFiles == [p \in Paths |-> NoFile]
JsonFile(content) == [kind |-> "json", content |-> content]
DbFile(engine, data) == [kind |-> "db", engine |-> engine, data |-> data]

\* A transaction handle.  Memory and Sled handles keep `changes`
\* (key -> Some(value) | None); the SQLite handle keeps `operations`.
\* `issued` is a ghost: the writes the caller issued through the handle.
NoTxn == [state |-> "none"]
PutOp(key, value) == [op |-> "put", key |-> key, value |-> value]
DeleteOp(key) == [op |-> "delete", key |-> key]

\* StorageEngine::begin_transaction
BeginTransaction(st) ==
    [state |-> "open", kind |-> st.kind, changes |-> EmptyMap, operations |-> << >>,
     issued |-> << >>, begun |-> st.data]

\* MemoryTransaction::put, SledTransaction::put : insert into a clone of
\* self.changes, which is dropped.  SqliteTransaction::put : push onto
\* self.operations.
TxnRecord(t, operation) ==
    IF t.kind = "sqlite"
    THEN [t EXCEPT !.operations = Append(@, operation)]
    ELSE LET changes == MapPut(t.changes, operation.key,
                               IF operation.op = "put" THEN Some(operation.value) ELSE None)
         IN t   \* `changes` is a local clone; self.changes is not assigned

\* StorageTransaction::put
TxnPut(t, key, value) ==
    [TxnRecord(t, PutOp(key, value)) EXCEPT !.issued = Append(@, PutOp(key, value))]

\* StorageTransaction::delete
TxnDelete(t, key) ==
    [TxnRecord(t, DeleteOp(key)) EXCEPT !.issued = Append(@, DeleteOp(key))]

\* StorageTransaction::get : changes first (memory, sled), then the engine;
\* the SQLite handle's tx is always None, so it reads the engine.
TxnGet(t, st, key) ==
    IF t.kind # "sqlite" /\ key \in DOMAIN t.changes THEN t.changes[key]
    ELSE EngineGet(st, key)

\* StorageTransaction::exists
TxnExists(t, st, key) ==
    IF t.kind # "sqlite" /\ key \in DOMAIN t.changes THEN IsSome(t.changes[key])
    ELSE EngineExists(st, key)

RECURSIVE ApplyOperations(_, _)
ApplyOperations(st, operations) ==
    IF operations = << >> THEN st
    ELSE ApplyOperations(
            IF Head(operations).op = "put"
            THEN EnginePut(st, Head(operations).key, Head(operations).value)
            ELSE EngineDelete(st, Head(operations).key),
            Tail(operations))

\* StorageTransaction::commit (the Ok case): the engine afterwards
TxnCommit(t, st) ==
    IF t.kind = "sqlite" THEN ApplyOperations(st, t.operations)
    ELSE ApplyOperations(st,
            [i \in 1..Len(SetToSeq(DOMAIN t.changes)) |->
                LET k == SetToSeq(DOMAIN t.changes)[i]
                IN IF IsSome(t.changes[k]) THEN PutOp(k, t.changes[k].some)
                   ELSE DeleteOp(k)])

\* The document wire format
DocKey(doc_id) == <<"d", "o", "c", ":">> \o doc_id

\* bincode::encode_to_vec(&document): the id's length, the id, the fields
EncodeDocument(document) == <<Len(document.id)>> \o document.id \o <<document.fields>>
\* bincode::decode_from_slice::<Document>
DecodeDocument(bytes) ==
    Document(SubSeq(bytes, 2, bytes[1] + 1), bytes[bytes[1] + 2])


-----------------------------------------------------------------------------
(* Inputs                                                                  *)

DocX == <<"x">>
DocY == <<"y">>
DocIds == {DocX, DocY}
\* a third id, used on the bare Index only
DocZ == <<"z">>
IndexDocIds == DocIds \cup {DocZ}

\* x: title = "ab"
DA == Document(DocX, [title |-> TextValue(<<"a", "b">>)])
\* x: title = "ba" (another version of x, sharing no token with DA)
DA2 == Document(DocX, [title |-> TextValue(<<"b", "a">>)])
\* y: title = "Ab b."
DB == Document(DocY, [title |-> TextValue(<<"A", "b", " ", "b">>)])

\* a document with a second field: {title: "ab", body: "a b"}
DC == Document(DocZ, [title |-> TextValue(<<"a", "b">>),
                      body |-> TextValue(<<"a", " ", "b">>)])
DocPool == {DA, DB}
IndexDocPool == {DA, DA2, DB, DC}
\* the field lists given to set_indexed_fields
FieldsPool == {<<"title">>}
BatchPool == {<<DA, DB>>, <<DA, DA2>>}

QueryPool == {<<"a", "b">>, <<"b", "a">>}
\* (query, options) pairs: both queries with the default options, one with
\* exact matching and limit 1
SearchPool == (QueryPool \X {None}) \cup {<<<<"a", "b">>, Some(SearchOptions(0, 0, 1))>>}

\* StorageConfig::default : cache_size = 50 MiB
CacheSize == 52428800

-----------------------------------------------------------------------------
(* tiger_cache.rs : the TigerCache facade                                  *)

\* entries of hist: the adds and removes since the index was last empty
AddOp(document) == [op |-> "add_document", document |-> document]
RemoveOp(doc_id) == [op |-> "remove_document", doc_id |-> doc_id]

HasStorage == storage.kind # "none"

Snapshot ==
    [index |-> index, storage |-> storage,
     document_cache |-> document_cache, query_cache |-> query_cache,
     path |-> path, files |-> files]

\* TigerCache::with_config : without a storage path there is no engine and no
\* cache; with one, the engine and the three caches are created.
InitFacade(kind, background) ==
    /\ index = IndexNew
    /\ storage = IF kind = "none" THEN NoStorage ELSE EngineAt(kind, StoragePath)
    /\ document_cache = IF kind = "none" THEN NoCache ELSE LruNew((CacheSize * 4) \div 10)
    /\ query_cache = IF kind = "none" THEN NoCache ELSE LruNew((CacheSize * 1) \div 10)
    /\ last = [op |-> "new"]
    /\ pre = [index |-> IndexNew]
    /\ hist = << >>
    /\ ops = 0
    /\ txn = NoTxn
    /\ path = IF kind = "none" THEN None ELSE Some(StoragePath)
    /\ files = IF Persistent(kind) THEN [NoFiles EXCEPT ![StoragePath] = DbFile(kind, EmptyMap)]
               ELSE NoFiles
    /\ closed = FALSE
    /\ lru = NoCache
    /\ interner = InternerNew
    /\ config = [enable_background_ops |-> background]
    /\ threads = NoThreads
    /\ memory_manager = IF kind = "none" THEN NoManager ELSE StartedManager

\* TigerCache::new and with_config under TigerCacheConfig::default()
Init == \E kind \in EngineKinds \cup {"none"} : InitFacade(kind, TRUE)

Called == /\ ops < MaxOps
          /\ ops' = ops + 1
          /\ pre' = Snapshot
          /\ UNCHANGED <<txn, path, files, closed, lru, interner, config, threads, memory_manager>>

\* TigerCache::add_document
AddDocument(document) ==
    /\ Called
    /\ index' = IndexAddDocument(index, document)
    /\ \/ \* no engine, or storage.put returned Ok
          /\ storage' = IF HasStorage
                        THEN EnginePut(storage, DocKey(document.id), EncodeDocument(document))
                        ELSE storage
          /\ document_cache' = IF HasCache(document_cache)
                               THEN DocumentCachePut(document_cache, document)
                               ELSE document_cache
          /\ last' = [op |-> "add_document", document |-> document, result |-> "Ok"]
       \/ \* storage.put returned Err: `?` returns it
          /\ Fallible(storage.kind)
          /\ UNCHANGED <<storage, document_cache>>
          /\ last' = [op |-> "add_document", document |-> document, result |-> "Err"]
    /\ hist' = Append(hist, AddOp(document))
    /\ UNCHANGED query_cache

RECURSIVE TxnPutAll(_, _)
\* for document in &documents { transaction.put(doc_key, doc_data)? }
TxnPutAll(t, documents) ==
    IF documents = << >> THEN t
    ELSE TxnPutAll(TxnPut(t, DocKey(Head(documents).id), EncodeDocument(Head(documents))),
                   Tail(documents))

RECURSIVE DocumentCachePutAll(_, _)
DocumentCachePutAll(c, documents) ==
    IF documents = << >> THEN c
    ELSE DocumentCachePutAll(DocumentCachePut(c, Head(documents)), Tail(documents))

\* TigerCache::add_documents_batch
AddDocumentsBatch(documents) ==
    /\ Called
    /\ index' = IndexAddDocumentsBatch(index, documents)
    /\ \/ \* no engine, or the transaction committed
          /\ storage' = IF HasStorage
                        THEN TxnCommit(TxnPutAll(BeginTransaction(storage), documents), storage)
                        ELSE storage
          /\ document_cache' = IF HasCache(document_cache)
                               THEN DocumentCachePutAll(document_cache, documents)
                               ELSE document_cache
          /\ last' = [op |-> "add_documents_batch", documents |-> documents, result |-> "Ok"]
       \/ \* transaction.commit returned Err (SQLite rolls back)
          /\ storage.kind = "sqlite"
          /\ UNCHANGED <<storage, document_cache>>
          /\ last' = [op |-> "add_documents_batch", documents |-> documents, result |-> "Err"]
    /\ hist' = hist \o [i \in 1..Len(documents) |-> AddOp(documents[i])]
    /\ UNCHANGED query_cache

\* TigerCache::remove_document
RemoveDocument(doc_id) ==
    /\ Called
    /\ \/ \* index.remove_document returned DocumentNotFound
          /\ ~IndexRemoveOk(index, doc_id)
          /\ UNCHANGED <<index, storage, document_cache>>
          /\ last' = [op |-> "remove_document", doc_id |-> doc_id,
                      result |-> "DocumentNotFound"]
       \/ \* removed from the index, the engine and the document cache
          /\ IndexRemoveOk(index, doc_id)
          /\ index' = IndexRemoveDocument(index, doc_id)
          /\ storage' = IF HasStorage THEN EngineDelete(storage, DocKey(doc_id)) ELSE storage
          /\ document_cache' = IF HasCache(document_cache)
                               THEN LruRemove(document_cache, doc_id)
                               ELSE document_cache
          /\ last' = [op |-> "remove_document", doc_id |-> doc_id, result |-> "Ok"]
       \/ \* storage.delete returned Err: `?` returns it
          /\ IndexRemoveOk(index, doc_id)
          /\ Fallible(storage.kind)
          /\ index' = IndexRemoveDocument(index, doc_id)
          /\ UNCHANGED <<storage, document_cache>>
          /\ last' = [op |-> "remove_document", doc_id |-> doc_id, result |-> "Err"]
    /\ hist' = IF IndexRemoveOk(index, doc_id) THEN Append(hist, RemoveOp(doc_id)) ELSE hist
    /\ UNCHANGED query_cache

\* TigerCache::get_document
GetDocument(doc_id) ==
    /\ Called
    /\ UNCHANGED <<storage, query_cache, hist>>
    /\ IF IsSome(IndexGetDocument(index, doc_id))
       THEN /\ UNCHANGED <<index, document_cache>>
            /\ last' = [op |-> "get_document", doc_id |-> doc_id,
                        result |-> IndexGetDocument(index, doc_id)]
       ELSE IF HasCache(document_cache) /\ IsSome(LruGetValue(document_cache, doc_id))
       THEN \* a cached document is added back to the index
            /\ document_cache' = LruGet(document_cache, doc_id)
            /\ index' = IndexAddDocument(index, LruGetValue(document_cache, doc_id).some)
            /\ last' = [op |-> "get_document", doc_id |-> doc_id,
                        result |-> IndexGetDocument(index', doc_id)]
       ELSE IF HasStorage /\ IsSome(EngineGet(storage, DocKey(doc_id)))
       THEN \* a stored document is decoded, added to the index and cached
            /\ index' = IndexAddDocument(index,
                            DecodeDocument(EngineGet(storage, DocKey(doc_id)).some))
            /\ document_cache' =
                  DocumentCachePut(LruGet(document_cache, doc_id),
                                   IndexGetDocument(index', doc_id).some)
            /\ last' = [op |-> "get_document", doc_id |-> doc_id,
                        result |-> IndexGetDocument(index', doc_id)]
       ELSE /\ index' = index
            /\ document_cache' = IF HasCache(document_cache)
                                 THEN LruGet(document_cache, doc_id)
                                 ELSE document_cache
            /\ last' = [op |-> "get_document", doc_id |-> doc_id, result |-> None]

\* TigerCache::search
Search(query, options) ==
    /\ Called
    /\ UNCHANGED <<index, storage, document_cache, hist>>
    /\ IF HasCache(query_cache)
          /\ IsSome(LruGetValue(query_cache, QueryKey(query, options)))
       THEN /\ query_cache' = LruGet(query_cache, QueryKey(query, options))
            /\ last' = [op |-> "search", query |-> query, options |-> options,
                        result |-> LruGetValue(query_cache, QueryKey(query, options)).some]
       ELSE /\ query_cache' =
                  IF HasCache(query_cache)
                  THEN QueryCachePut(LruGet(query_cache, QueryKey(query, options)),
                                     query, options, IndexSearch(index, query, options))
                  ELSE query_cache
            /\ last' = [op |-> "search", query |-> query, options |-> options,
                        result |-> IndexSearch(index, query, options)]

\* TigerCache::clear
Clear ==
    /\ Called
    /\ index' = IndexClear(index)
    /\ document_cache' = IF HasCache(document_cache) THEN LruClear(document_cache)
                         ELSE document_cache
    /\ query_cache' = IF HasCache(query_cache) THEN LruClear(query_cache) ELSE query_cache
    /\ UNCHANGED storage
    /\ hist' = << >>
    /\ last' = [op |-> "clear"]

Next ==
    \/ \E document \in DocPool : AddDocument(document)
    \/ \E documents \in BatchPool : AddDocumentsBatch(documents)
    \/ \E doc_id \in DocIds : RemoveDocument(doc_id)
    \/ \E doc_id \in DocIds : GetDocument(doc_id)
    \/ \E s \in SearchPool : Search(s[1], s[2])
    \/ Clear

Spec == Init /\ [][Next]_vars


-----------------------------------------------------------------------------
(* tiger_cache.rs, persistence.rs : saving, committing, closing, opening   *)

\* A serialised map is the collection of its entries; deserialising rebuilds
\* the map from them.
MapToPairs(f) == {<<k, f[k]>> : k \in DOMAIN f}
PairsToMap(S) == [k \in {e[1] : e \in S} |-> (CHOOSE e \in S : e[1] = k)[2]]

\* serde_json::to_writer(&index) / bincode::encode_to_vec(&index)
EncodeIndex(idx) ==
    [documents |-> MapToPairs(idx.documents),
     inverted_index |-> MapToPairs(idx.inverted_index),
     trigram_index |-> MapToPairs(idx.trigram_index),
     string_to_id |-> MapToPairs(idx.interner.string_to_id),
     id_to_string |-> MapToPairs(idx.interner.id_to_string),
     next_id |-> idx.interner.next_id,
     indexed_fields |-> idx.indexed_fields]

\* serde_json::from_reader / bincode::decode_from_slice::<Index>
DecodeIndex(bytes) ==
    [documents |-> PairsToMap(bytes.documents),
     inverted_index |-> PairsToMap(bytes.inverted_index),
     trigram_index |-> PairsToMap(bytes.trigram_index),
     interner |-> [string_to_id |-> PairsToMap(bytes.string_to_id),
                   id_to_string |-> PairsToMap(bytes.id_to_string),
                   next_id |-> bytes.next_id],
     indexed_fields |-> bytes.indexed_fields]

\* b"index_metadata"
IndexMetadataKey == <<"i", "n", "d", "e", "x", "_", "m", "e", "t", "a", "d", "a", "t", "a">>

\* a call of the persistence API: counted, the state before it remembered
PersistCalled ==
    /\ ops < MaxOps
    /\ ops' = ops + 1
    /\ pre' = Snapshot
    /\ UNCHANGED <<txn, hist, lru, interner, config, threads>>

\* persistence::save_to_file : File::create fails on a sled directory
LegacySaveOk(p) == ~(files[p].kind = "db" /\ files[p].engine = "sled")
LegacySave(p) == [files EXCEPT ![p] = JsonFile(EncodeIndex(index))]

\* the body shared by commit and save_to_file once the path is known
WriteIndex(op, p) ==
    IF HasStorage
    THEN /\ UNCHANGED files
         /\ \/ /\ storage' = EnginePut(storage, IndexMetadataKey, EncodeIndex(index))
               /\ last' = [op |-> op, path |-> p, result |-> "Ok", was_closed |-> closed]
            \/ /\ Fallible(storage.kind)
               /\ UNCHANGED storage
               /\ last' = [op |-> op, path |-> p, result |-> "Err", was_closed |-> closed]
    ELSE /\ UNCHANGED storage
         /\ files' = IF LegacySaveOk(p) THEN LegacySave(p) ELSE files
         /\ last' = [op |-> op, path |-> p, was_closed |-> closed,
                     result |-> IF LegacySaveOk(p) THEN "Ok" ELSE "Err"]

\* TigerCache::save_to_file
SaveToFile(p) ==
    /\ PersistCalled
    /\ path' = Some(p)
    /\ WriteIndex("save_to_file", p)
    /\ UNCHANGED <<index, document_cache, query_cache, closed, memory_manager>>

\* TigerCache::commit
Commit ==
    /\ PersistCalled
    /\ UNCHANGED <<index, document_cache, query_cache, closed, path, memory_manager>>
    /\ IF IsSome(path)
       THEN WriteIndex("commit", path.some)
       ELSE /\ UNCHANGED <<storage, files>>
            /\ last' = [op |-> "commit", path |-> "", result |-> "NoPath",
                        was_closed |-> closed]

\* TigerCache::close : flush and close the engine, stop the memory manager
Close ==
    /\ PersistCalled
    /\ closed' = TRUE
    /\ memory_manager' = IF HasManager(memory_manager) THEN ManagerStop(memory_manager)
                         ELSE memory_manager
    /\ UNCHANGED <<index, storage, document_cache, query_cache, path, files>>
    /\ \/ last' = [op |-> "close", result |-> "Ok", was_closed |-> closed]
       \/ /\ Fallible(storage.kind)
          /\ last' = [op |-> "close", result |-> "Err", was_closed |-> closed]

\* the file system once the data of the instance's sled or SQLite engine is on disk
FilesOnDisk ==
    IF Persistent(storage.kind)
    THEN [files EXCEPT ![storage.path.some] = DbFile(storage.kind, storage.data)]
    ELSE files

\* create_storage_engine for config.path = p on the file system fs: None when
\* the engine cannot be opened there
OpenEngine(kind, p, fs) ==
    IF kind = "memory" THEN Some(EngineAt(kind, p))
    ELSE IF fs[p].kind = "none" THEN Some(EngineAt(kind, p))
    ELSE IF fs[p].kind = "db" /\ fs[p].engine = kind
         THEN Some([EngineAt(kind, p) EXCEPT !.data = fs[p].data])
    ELSE None

\* open_with_config : the index of the opened instance
OpenedIndex(p, fs, engine) ==
    IF fs[p].kind = "json" THEN DecodeIndex(fs[p].content)
    ELSE IF IsSome(engine) /\ IsSome(EngineGet(engine.some, IndexMetadataKey))
         THEN DecodeIndex(EngineGet(engine.some, IndexMetadataKey).some)
    ELSE IndexNew

\* TigerCache::open_with_config(p, config) with config.storage_type = kind; the
\* state becomes that of the instance it returns
Open(p, kind) ==
    /\ PersistCalled
    /\ LET fs == FilesOnDisk
           engine == OpenEngine(kind, p, fs)
       IN /\ index' = OpenedIndex(p, fs, engine)
          /\ storage' = IF IsSome(engine) THEN engine.some ELSE NoStorage
          /\ document_cache' = IF IsSome(engine) THEN LruNew((CacheSize * 4) \div 10)
                               ELSE NoCache
          /\ query_cache' = IF IsSome(engine) THEN LruNew((CacheSize * 1) \div 10)
                            ELSE NoCache
          /\ files' = IF IsSome(engine) /\ Persistent(kind) /\ fs[p].kind = "none"
                      THEN [fs EXCEPT ![p] = DbFile(kind, EmptyMap)]
                      ELSE fs
          /\ memory_manager' = IF IsSome(engine) THEN StartedManager ELSE NoManager
    /\ path' = Some(p)
    /\ closed' = FALSE
    /\ last' = [op |-> "open", path |-> p, kind |-> kind, result |-> "Ok",
                after_save |-> /\ last.op = "save_to_file"
                               /\ last.result = "Ok"
                               /\ last.path = p]

NextPersist ==
    \/ \E document \in DocPool : AddDocument(document)
    \/ \E doc_id \in DocIds : RemoveDocument(doc_id)
    \/ \E p \in Paths : SaveToFile(p)
    \/ Commit
    \/ Close
    \/ \E p \in Paths, kind \in EngineKinds : Open(p, kind)

\* with_config under any setting of enable_background_ops
InitPersist ==
    \E kind \in EngineKinds \cup {"none"}, background \in BOOLEAN : InitFacade(kind, background)

SpecPersist == InitPersist /\ [][NextPersist]_vars

-----------------------------------------------------------------------------
(* The bare Index (index.rs, search.rs) driven through its own API         *)

InitIndex ==
    /\ index = IndexNew
    /\ storage = NoStorage
    /\ document_cache = NoCache
    /\ query_cache = NoCache
    /\ last = [op |-> "new"]
    /\ pre = [index |-> IndexNew]
    /\ hist = << >>
    /\ ops = 0
    /\ txn = NoTxn
    /\ path = None
    /\ files = NoFiles
    /\ closed = FALSE
    /\ lru = NoCache
    /\ interner = InternerNew
    /\ config = DefaultConfig
    /\ threads = NoThreads
    /\ memory_manager = NoManager

IndexCalled ==
    /\ ops < MaxIndexOps
    /\ ops' = ops + 1
    /\ pre' = [index |-> index]
    /\ UNCHANGED <<storage, document_cache, query_cache, txn, path, files, closed, lru, interner, config, threads, memory_manager>>

\* Index::add_document
IdxAddDocument(document) ==
    /\ IndexCalled
    /\ index' = IndexAddDocument(index, document)
    /\ hist' = Append(hist, AddOp(document))
    /\ last' = [op |-> "add_document", document |-> document, result |-> "Ok"]

\* Index::add_documents_batch
IdxAddDocumentsBatch(documents) ==
    /\ IndexCalled
    /\ index' = IndexAddDocumentsBatch(index, documents)
    /\ hist' = hist \o [i \in 1..Len(documents) |-> AddOp(documents[i])]
    /\ last' = [op |-> "add_documents_batch", documents |-> documents, result |-> "Ok"]

\* Index::remove_document
IdxRemoveDocument(doc_id) ==
    /\ IndexCalled
    /\ index' = IndexRemoveDocument(index, doc_id)
    /\ hist' = IF IndexRemoveOk(index, doc_id) THEN Append(hist, RemoveOp(doc_id)) ELSE hist
    /\ last' = [op |-> "remove_document", doc_id |-> doc_id,
                result |-> IF IndexRemoveOk(index, doc_id) THEN "Ok" ELSE "DocumentNotFound"]

\* Index::clear
IdxClear ==
    /\ IndexCalled
    /\ index' = IndexClear(index)
    /\ hist' = << >>
    /\ last' = [op |-> "clear"]

\* Index::set_indexed_fields
IdxSetIndexedFields(fields) ==
    /\ IndexCalled
    /\ index' = set_indexed_fields(index, fields)
    /\ hist' = hist
    /\ last' = [op |-> "set_indexed_fields", fields |-> fields]

NextIndex ==
    \/ \E fields \in FieldsPool : IdxSetIndexedFields(fields)
    \/ \E document \in IndexDocPool : IdxAddDocument(document)
    \/ \E documents \in BatchPool : IdxAddDocumentsBatch(documents)
    \/ \E doc_id \in DocIds : IdxRemoveDocument(doc_id)
    \/ IdxClear

SpecIndex == InitIndex /\ [][NextIndex]_vars

-----------------------------------------------------------------------------
(* An LruCache driven through its own API                                  *)

\* the capacity of the cache, the keys and the entry sizes used
LruMaxSize == 10
LruKeys == {"a", "b", "c"}
LruSizes == {3, 6, 9}

InitLru ==
    /\ index = IndexNew
    /\ storage = NoStorage
    /\ document_cache = NoCache
    /\ query_cache = NoCache
    /\ last = [op |-> "new"]
    /\ pre = [lru |-> LruNew(LruMaxSize)]
    /\ hist = << >>
    /\ ops = 0
    /\ txn = NoTxn
    /\ path = None
    /\ files = NoFiles
    /\ closed = FALSE
    /\ lru = LruNew(LruMaxSize)
    /\ interner = InternerNew
    /\ config = DefaultConfig
    /\ threads = NoThreads
    /\ memory_manager = NoManager

LruCalled ==
    /\ ops < MaxLruOps
    /\ ops' = ops + 1
    /\ pre' = [lru |-> lru]
    /\ UNCHANGED <<index, storage, document_cache, query_cache, hist, txn, path, files, closed,
                   interner, config, threads, memory_manager>>

\* LruCache::get
CacheGet(key) ==
    /\ LruCalled
    /\ lru' = LruGet(lru, key)
    /\ last' = [op |-> "get", key |-> key, result |-> LruGetValue(lru, key)]

\* LruCache::put : the value stored is the size, returns the old value if any
CachePut(key, size) ==
    /\ LruCalled
    /\ lru' = LruPut(lru, key, size, size)
    /\ last' = [op |-> "put", key |-> key, size |-> size,
                result |-> LruGetValue(lru, key)]

\* LruCache::remove
CacheRemove(key) ==
    /\ LruCalled
    /\ lru' = LruRemove(lru, key)
    /\ last' = [op |-> "remove", key |-> key, result |-> LruGetValue(lru, key)]

\* LruCache::clear
CacheClear ==
    /\ LruCalled
    /\ lru' = LruClear(lru)
    /\ last' = [op |-> "clear"]

\* LruCache::put with a size of the caller's choice.  config holds the build.
CachePutSized(key, size) ==
    /\ LruCalled
    /\ IF config.overflow_checks /\ LruPutPanics(lru, key, size)
       THEN /\ lru' = lru
            /\ last' = [op |-> "put", key |-> key, size |-> size, panic |-> TRUE]
       ELSE /\ lru' = LruPut(lru, key, size, size)
            /\ last' = [op |-> "put", key |-> key, size |-> size, panic |-> FALSE]

NextLru ==
    \/ \E key \in LruKeys : CacheGet(key)
    \/ \E key \in LruKeys, size \in LruSizes : CachePut(key, size)
    \/ \E key \in LruKeys : CacheRemove(key)
    \/ CacheClear

SpecLru == InitLru /\ [][NextLru]_vars

\* the sizes a caller may report: any usize
ReportedSizes == {3, 6, UsizeMax}

InitLruSized ==
    /\ index = IndexNew
    /\ storage = NoStorage
    /\ document_cache = NoCache
    /\ query_cache = NoCache
    /\ last = [op |-> "new"]
    /\ pre = [lru |-> LruNew(LruMaxSize)]
    /\ hist = << >>
    /\ ops = 0
    /\ txn = NoTxn
    /\ path = None
    /\ files = NoFiles
    /\ closed = FALSE
    /\ lru = LruNew(LruMaxSize)
    /\ interner = InternerNew
    /\ \E b \in BOOLEAN : config = [overflow_checks |-> b]
    /\ threads = NoThreads
    /\ memory_manager = NoManager

NextLruSized ==
    \/ \E key \in LruKeys : CacheGet(key)
    \/ \E key \in LruKeys, size \in ReportedSizes : CachePutSized(key, size)
    \/ \E key \in LruKeys : CacheRemove(key)
    \/ CacheClear

SpecLruSized == InitLruSized /\ [][NextLruSized]_vars

-----------------------------------------------------------------------------
(* A MemoryManager driven through its own API, with its worker thread      *)

\* 2^62 and 2^63 bytes
TwoTo62 == <<0, 0, 0, 16384>>
TwoTo63 == <<0, 0, 0, 32768>>

PressureLevels == {"Low", "Medium", "High", "Critical"}
MemFreeSizes == {U64(3), U64(50)}
MemStatsLevels == {"Low", "Critical"}
MemMaxPool == {U64(100), U64(7), TwoTo62}
MemSizes == {U64(3), U64(40), U64(50), TwoTo63}

InitMem ==
    /\ index = IndexNew
    /\ storage = NoStorage
    /\ document_cache = NoCache
    /\ query_cache = NoCache
    /\ last = [op |-> "new"]
    /\ hist = << >>
    /\ ops = 0
    /\ txn = NoTxn
    /\ path = None
    /\ files = NoFiles
    /\ closed = FALSE
    /\ lru = LruNew(LruMaxSize)
    /\ interner = InternerNew
    /\ config = DefaultConfig
    /\ threads = NoThreads
    /\ \E max_memory \in MemMaxPool, overflow_checks \in BOOLEAN :
          /\ memory_manager = MemoryManagerNew(max_memory, overflow_checks)
          /\ pre = [memory_manager |-> MemoryManagerNew(max_memory, overflow_checks)]

MemCalled ==
    /\ ops' = ops + 1
    /\ pre' = [memory_manager |-> memory_manager]
    /\ UNCHANGED <<index, storage, document_cache, query_cache, txn, path, files, closed,
                   lru, interner, config, threads>>

\* a call of the API by the owner of the manager
MemUserCalled ==
    /\ ops < MaxMemOps
    /\ MemCalled

\* a step of the worker thread; once stop() was called its remaining steps
\* are few and are always taken
MemWorkerStep ==
    /\ ops < MaxMemOps \/ ~memory_manager.running
    /\ MemCalled

\* MemoryManager::start
MemStart ==
    /\ memory_manager.worker = "none"
    /\ MemUserCalled
    /\ memory_manager' = ManagerStart(memory_manager)
    /\ hist' = Append(hist, [op |-> "start"])
    /\ last' = [op |-> "start"]

\* MemoryManager::stop
MemStop ==
    /\ memory_manager.running
    /\ MemUserCalled
    /\ memory_manager' = ManagerStop(memory_manager)
    /\ hist' = Append(hist, [op |-> "stop"])
    /\ last' = [op |-> "stop"]

\* MemoryManager::allocate
MemAllocate(size) ==
    /\ MemUserCalled
    /\ memory_manager' = ManagerAllocate(memory_manager, size)
    /\ hist' = hist
    /\ last' = [op |-> "allocate", size |-> size,
                result |-> ManagerAllocateResult(memory_manager, size)]

\* MemoryManager::free
MemFree(size) ==
    /\ MemUserCalled
    /\ memory_manager' = ManagerFree(memory_manager, size)
    /\ hist' = hist
    /\ last' = [op |-> "free", size |-> size]

\* MemoryManager::update_stats with stats() changed in its pressure_level
MemUpdateStats(level) ==
    /\ MemUserCalled
    /\ memory_manager' = ManagerUpdateStats(memory_manager,
                            [memory_manager.stats EXCEPT !.pressure_level = level])
    /\ hist' = hist
    /\ last' = [op |-> "update_stats", level |-> level]

\* the worker evaluates the loop condition
MemWorkerCheck ==
    /\ memory_manager.worker = "check"
    /\ MemWorkerStep
    /\ memory_manager' = WorkerCheck(memory_manager)
    /\ hist' = hist
    /\ last' = [op |-> "check"]

\* the worker wakes up and takes one sample
MemWorkerSample ==
    /\ memory_manager.worker = "sleep"
    /\ MemWorkerStep
    /\ memory_manager' = WorkerSample(memory_manager)
    /\ hist' = Append(hist, [op |-> "sample", usage |-> memory_manager.current_usage])
    /\ last' = [op |-> "sample"]

NextMem ==
    \/ MemStart
    \/ MemStop
    \/ \E size \in MemSizes : MemAllocate(size)
    \/ \E size \in MemFreeSizes : MemFree(size)
    \/ \E level \in MemStatsLevels : MemUpdateStats(level)
    \/ MemWorkerCheck
    \/ MemWorkerSample

SpecMem == InitMem /\ [][NextMem]_vars

\* The life of the worker: start, stop, one allocation size and the steps of
\* the thread.  The thread is scheduled; the calls of the owner are not forced.
NextWorker ==
    \/ MemStart
    \/ MemStop
    \/ MemAllocate(U64(50))
    \/ MemWorkerCheck
    \/ MemWorkerSample

SpecWorker ==
    /\ InitMem
    /\ [][NextWorker]_vars
    /\ WF_vars(MemWorkerCheck)
    /\ WF_vars(MemWorkerSample)

-----------------------------------------------------------------------------
(* The memory manager beside a cache, as with_config builds them           *)

\* the number of a u64 below U64Base * U64Base
U64ToNat(d) == d[1] + U64Base * d[2]

\* allocation sizes: 3 bytes, 300 MiB
EvictSizes == {U64(3), U64(300 * 1024 * 1024)}

InitEvict ==
    /\ index = IndexNew
    /\ storage = NoStorage
    /\ document_cache = NoCache
    /\ query_cache = NoCache
    /\ last = [op |-> "new"]
    /\ hist = << >>
    /\ ops = 0
    /\ txn = NoTxn
    /\ path = None
    /\ files = NoFiles
    /\ closed = FALSE
    /\ lru = LruNew(LruMaxSize)
    /\ interner = InternerNew
    /\ config = DefaultConfig
    /\ threads = NoThreads
    /\ memory_manager = StartedManager
    /\ pre = [memory_manager |-> StartedManager]

EvictCalled ==
    /\ ops < MaxEvictOps
    /\ ops' = ops + 1
    /\ pre' = [memory_manager |-> memory_manager]
    /\ UNCHANGED <<index, storage, document_cache, query_cache, txn, path, files, closed,
                   interner, config, threads>>

\* the EvictionRequired events among events, each with the size of the cache
\* at the time it was sent
Requests(events, cache) ==
    LET required == SelectSeq(events, LAMBDA e : e.event = "EvictionRequired")
    IN [i \in 1..Len(required) |->
          [bytes_to_free |-> U64ToNat(required[i].bytes_to_free),
           cache_size |-> cache.current_size]]

\* MemoryManager::allocate; no code receives the events it sends
EvAllocate(size) ==
    /\ EvictCalled
    /\ memory_manager' = ManagerAllocate(memory_manager, size)
    /\ lru' = lru
    /\ hist' = hist \o Requests(SubSeq(ManagerAllocate(memory_manager, size).events,
                                       Len(memory_manager.events) + 1,
                                       Len(ManagerAllocate(memory_manager, size).events)), lru)
    /\ last' = [op |-> "allocate", size |-> size,
                result |-> ManagerAllocateResult(memory_manager, size)]

\* the worker at its loop test
EvWorkerCheck ==
    /\ memory_manager.worker = "check"
    /\ EvictCalled
    /\ memory_manager' = WorkerCheck(memory_manager)
    /\ UNCHANGED <<lru, hist>>
    /\ last' = [op |-> "check"]

\* one sample of the worker; no code receives the events it sends
EvWorkerSample ==
    /\ memory_manager.worker = "sleep"
    /\ EvictCalled
    /\ memory_manager' = WorkerSample(memory_manager)
    /\ lru' = lru
    /\ hist' = hist \o Requests(SubSeq(WorkerSample(memory_manager).events,
                                       Len(memory_manager.events) + 1,
                                       Len(WorkerSample(memory_manager).events)), lru)
    /\ last' = [op |-> "sample"]

\* a put into the cache
EvCachePut(key, size) ==
    /\ EvictCalled
    /\ lru' = LruPut(lru, key, size, size)
    /\ UNCHANGED <<memory_manager, hist>>
    /\ last' = [op |-> "put", key |-> key, size |-> size]

NextEvict ==
    \/ \E size \in EvictSizes : EvAllocate(size)
    \/ EvWorkerCheck
    \/ EvWorkerSample
    \/ \E key \in LruKeys, size \in LruSizes : EvCachePut(key, size)

\* the worker thread is scheduled; the calls of the owner are not forced
SpecEvict ==
    /\ InitEvict
    /\ [][NextEvict]_vars
    /\ WF_vars(EvWorkerCheck)
    /\ WF_vars(EvWorkerSample)

-----------------------------------------------------------------------------
(* Concurrent callers of get_page on an engine with a page cache           *)

PageThreads == {"t1", "t2"}
PageIds == {1, 2}
\* the database holds page 1 with data 0; page 2 is not stored
StoredPages == [id \in {1} |-> 0]

IdleThread == [pc |-> "idle", held |-> {}]

InitPages ==
    /\ index = IndexNew
    /\ document_cache = NoCache
    /\ query_cache = NoCache
    /\ last = [op |-> "new"]
    /\ pre = [storage |-> NoStorage]
    /\ hist = << >>
    /\ ops = 0
    /\ txn = NoTxn
    /\ path = None
    /\ files = NoFiles
    /\ closed = FALSE
    /\ lru = LruNew(LruMaxSize)
    /\ interner = InternerNew
    /\ config = DefaultConfig
    /\ memory_manager = NoManager
    /\ \E kind \in PageEngineKinds : storage = PageEngineOpen(kind, StoredPages)
    /\ threads = [t \in PageThreads |-> IdleThread]

PagesFrame ==
    /\ pre' = [storage |-> storage]
    /\ UNCHANGED <<index, document_cache, query_cache, hist, txn, path, files, closed, lru,
                   interner, config, memory_manager>>

\* a call that starts: the number of calls is bounded
PagesCalled ==
    /\ ops < MaxPageOps
    /\ ops' = ops + 1
    /\ PagesFrame

\* a later step of a call in progress
PagesStep ==
    /\ ops' = ops
    /\ PagesFrame

\* get_page: page_cache.read() and the lookup.  A hit returns the cached
\* PageRef; a miss goes on to the load.
GetPageLookup(t, page_id) ==
    /\ threads[t].pc = "idle"
    /\ CanRead(storage)
    /\ PagesCalled
    /\ IF IsSome(CachedPage(storage, page_id))
       THEN /\ storage' = storage
            /\ threads' = [threads EXCEPT ![t].held = @ \cup {CachedPage(storage, page_id).some}]
            /\ last' = [op |-> "get_page", thread |-> t, page_id |-> page_id,
                        result |-> CachedPage(storage, page_id)]
       ELSE /\ storage' = AfterMiss(storage, t)
            /\ threads' = [threads EXCEPT ![t] = [pc |-> "load", page_id |-> page_id,
                                                  held |-> threads[t].held]]
            /\ last' = [op |-> "lookup", thread |-> t, page_id |-> page_id]

\* get_page: the read of the page table (behind the connection mutex for
\* SQLite)
GetPageLoad(t) ==
    /\ threads[t].pc = "load"
    /\ LocksConnection(storage.kind) => storage.conn = "none"
    /\ PagesStep
    /\ IF threads[t].page_id \in DOMAIN storage.pages
       THEN /\ storage' = LoadPage(storage, t, threads[t].page_id)
            /\ threads' = [threads EXCEPT ![t] = [pc |-> "insert", page_id |-> threads[t].page_id,
                                                  ref |-> Len(storage.refs) + 1,
                                                  held |-> threads[t].held]]
            /\ last' = [op |-> "load", thread |-> t, page_id |-> threads[t].page_id]
       ELSE /\ storage' = LoadNothing(storage, t)
            /\ threads' = [threads EXCEPT ![t] = [pc |-> "idle", held |-> threads[t].held]]
            /\ last' = [op |-> "get_page", thread |-> t, page_id |-> threads[t].page_id,
                        result |-> None]

\* get_page: page_cache.write(), the insert and the return
GetPageInsert(t) ==
    /\ threads[t].pc = "insert"
    /\ CanWrite(storage)
    /\ PagesStep
    /\ storage' = InsertPage(storage, t, threads[t].page_id, threads[t].ref)
    /\ threads' = [threads EXCEPT ![t] = [pc |-> "idle",
                                          held |-> threads[t].held \cup {threads[t].ref}]]
    /\ last' = [op |-> "get_page", thread |-> t, page_id |-> threads[t].page_id,
                result |-> Some(threads[t].ref)]

\* a caller writes a page through a PageRef it was given
ModifyPage(t, ref) ==
    /\ threads[t].pc = "idle"
    /\ ref \in threads[t].held
    /\ PagesCalled
    /\ storage' = WritePage(storage, ref, storage.refs[ref].data + 1)
    /\ threads' = threads
    /\ last' = [op |-> "modify", thread |-> t, ref |-> ref]

\* flush (Sled and SQLite read page_cache, SQLite behind the connection mutex)
Flush(t) ==
    /\ threads[t].pc = "idle"
    /\ KeepsReadGuard(storage.kind)
        \/ (CanRead(storage) /\ (LocksConnection(storage.kind) => storage.conn = "none"))
    /\ PagesCalled
    /\ storage' = FlushPages(storage)
    /\ threads' = threads
    /\ last' = [op |-> "flush", thread |-> t]

NextPages ==
    \/ \E t \in PageThreads, page_id \in PageIds : GetPageLookup(t, page_id)
    \/ \E t \in PageThreads : GetPageLoad(t)
    \/ \E t \in PageThreads : GetPageInsert(t)
    \/ \E t \in PageThreads, ref \in 1..MaxPageOps : ModifyPage(t, ref)
    \/ \E t \in PageThreads : Flush(t)

\* a thread inside get_page is scheduled; nobody is obliged to call
SpecPages ==
    /\ InitPages
    /\ [][NextPages]_vars
    /\ \A t \in PageThreads : WF_vars(GetPageLoad(t)) /\ WF_vars(GetPageInsert(t))

-----------------------------------------------------------------------------
(* MemoryStorageEngine with its statistics, called from two threads        *)

\* MemoryStorageEngine::new: no key, both counters zero.  writer is the thread
\* that holds data.write(); underflow records a counter taken below zero (a
\* panic in a build with overflow checks, a wrapped counter without them)
MemoryStorageEngineNew ==
    [kind |-> "memory", data |-> EmptyMap,
     stats |-> [key_count |-> 0, total_value_size |-> 0, write_count |-> 0],
     writer |-> "none", underflow |-> FALSE]

\* the length of the value stored under key, 0 for a key that is not stored
OldSize(data, key) == IF key \in DOMAIN data THEN Len(data[key]) ELSE 0

\* put, up to the statistics: data.write(), is_new, old_size, insert
MemoryPutData(e, t, key, value) ==
    [e EXCEPT !.writer = t, !.data = MapPut(e.data, key, value)]

\* put, the statistics: key_count += 1 for a new key,
\* total_value_size = total_value_size - old_size + value.len(); then both
\* guards are dropped
MemoryPutStats(e, is_new, old_size, value_len) ==
    [e EXCEPT !.writer = "none",
              !.stats = [key_count |-> IF is_new THEN @.key_count + 1 ELSE @.key_count,
                         total_value_size |->
                             SatSub(@.total_value_size, old_size) + value_len,
                         write_count |-> @.write_count + 1],
              !.underflow = @ \/ e.stats.total_value_size < old_size]

\* delete, up to the statistics: data.write(), old_size, remove
MemoryDeleteData(e, t, key) ==
    [e EXCEPT !.writer = t, !.data = MapDrop(e.data, key)]

\* a delete that counts a key down whether or not it removed one
MemoryDeleteStatsAlways(e, removed, old_size) ==
    [e EXCEPT !.writer = "none",
              !.stats = [key_count |-> SatSub(@.key_count, 1),
                         total_value_size |-> SatSub(@.total_value_size, old_size),
                         write_count |-> @.write_count + 1],
              !.underflow = @ \/ e.stats.key_count < 1
                              \/ e.stats.total_value_size < old_size]

\* delete, the statistics: if a key was removed, key_count -= 1 and
\* total_value_size -= old_size; then both guards are dropped
MemoryDeleteStats(e, removed, old_size) ==
    IF removed
    THEN [e EXCEPT !.writer = "none",
                   !.stats = [key_count |-> SatSub(@.key_count, 1),
                              total_value_size |-> SatSub(@.total_value_size, old_size),
                              write_count |-> @.write_count + 1],
                   !.underflow = @ \/ e.stats.key_count < 1
                                   \/ e.stats.total_value_size < old_size]
    ELSE [e EXCEPT !.writer = "none",
                   !.stats = [@ EXCEPT !.write_count = @ + 1]]

EngineThreads == {"t1", "t2"}
EngineKeys == {"a", "b"}
EngineValues == {<< >>, <<1>>, <<1, 2, 3>>}

IdleCaller == [pc |-> "idle", key |-> "a", is_new |-> FALSE, old_size |-> 0, value_len |-> 0]

InitEngine ==
    /\ index = IndexNew
    /\ document_cache = NoCache
    /\ query_cache = NoCache
    /\ last = [op |-> "new"]
    /\ pre = [storage |-> NoStorage]
    /\ hist = << >>
    /\ ops = 0
    /\ txn = NoTxn
    /\ path = None
    /\ files = NoFiles
    /\ closed = FALSE
    /\ lru = LruNew(LruMaxSize)
    /\ interner = InternerNew
    /\ config = DefaultConfig
    /\ memory_manager = NoManager
    /\ storage = MemoryStorageEngineNew
    /\ threads = [t \in EngineThreads |-> IdleCaller]

EngineFrame ==
    /\ pre' = [storage |-> storage]
    /\ UNCHANGED <<index, document_cache, query_cache, hist, txn, path, files, closed, lru,
                   interner, config, memory_manager>>

\* a call that starts: the number of calls is bounded
EngineCalled ==
    /\ ops < MaxEngineOps
    /\ ops' = ops + 1
    /\ EngineFrame

\* put: the caller waits for data.write(), then inserts
PutData(t, key, value) ==
    /\ threads[t].pc = "idle"
    /\ storage.writer = "none"
    /\ EngineCalled
    /\ storage' = MemoryPutData(storage, t, key, value)
    /\ threads' = [threads EXCEPT ![t] = [pc |-> "put_stats", key |-> key,
                                          is_new |-> key \notin DOMAIN storage.data,
                                          old_size |-> OldSize(storage.data, key),
                                          value_len |-> Len(value)]]
    /\ last' = [op |-> "put_data", thread |-> t, key |-> key]

\* put: stats.lock(), the counters, return
PutStats(t) ==
    /\ threads[t].pc = "put_stats"
    /\ ops' = ops
    /\ EngineFrame
    /\ storage' = MemoryPutStats(storage, threads[t].is_new, threads[t].old_size,
                                 threads[t].value_len)
    /\ threads' = [threads EXCEPT ![t] = IdleCaller]
    /\ last' = [op |-> "put", thread |-> t, key |-> threads[t].key,
                is_new |-> threads[t].is_new]

\* delete: the caller waits for data.write(), then removes
DeleteData(t, key) ==
    /\ threads[t].pc = "idle"
    /\ storage.writer = "none"
    /\ EngineCalled
    /\ storage' = MemoryDeleteData(storage, t, key)
    /\ threads' = [threads EXCEPT ![t] = [pc |-> "delete_stats", key |-> key,
                                          is_new |-> key \in DOMAIN storage.data,
                                          old_size |-> OldSize(storage.data, key),
                                          value_len |-> 0]]
    /\ last' = [op |-> "delete_data", thread |-> t, key |-> key]

\* delete: stats.lock(), the counters, return (is_new holds removed.is_some())
DeleteStats(t) ==
    /\ threads[t].pc = "delete_stats"
    /\ ops' = ops
    /\ EngineFrame
    /\ storage' = MemoryDeleteStats(storage, threads[t].is_new, threads[t].old_size)
    /\ threads' = [threads EXCEPT ![t] = IdleCaller]
    /\ last' = [op |-> "delete", thread |-> t, key |-> threads[t].key,
                removed |-> threads[t].is_new]

\* stats: a copy of the counters under stats.lock(); it does not wait for data
EngineStats(t) ==
    /\ threads[t].pc = "idle"
    /\ EngineCalled
    /\ UNCHANGED <<storage, threads>>
    /\ last' = [op |-> "stats", thread |-> t, result |-> storage.stats]

NextEngine ==
    \/ \E t \in EngineThreads, key \in EngineKeys, value \in EngineValues : PutData(t, key, value)
    \/ \E t \in EngineThreads : PutStats(t)
    \/ \E t \in EngineThreads, key \in EngineKeys : DeleteData(t, key)
    \/ \E t \in EngineThreads : DeleteStats(t)
    \/ \E t \in EngineThreads : EngineStats(t)

SpecEngine == InitEngine /\ [][NextEngine]_vars

-----------------------------------------------------------------------------
(* One LruCache called from two threads: the four RwLocks                  *)

Guard(lock, mode, temp) == [lock |-> lock, mode |-> mode, temp |-> temp]

\* remove with the two locks taken in the other order
LocksOfRemoveReversed(op, hit) ==
    IF op = "remove"
    THEN <<Guard("current_size", "write", FALSE), Guard("entries", "write", FALSE)>>
    ELSE IF op = "get"
    THEN <<Guard("entries", "write", FALSE),
           Guard(IF hit THEN "hits" ELSE "misses", "write", TRUE)>>
    ELSE IF op \in {"put", "clear"}
    THEN <<Guard("entries", "write", FALSE), Guard("current_size", "write", FALSE)>>
    ELSE IF op = "size"
    THEN <<Guard("current_size", "read", TRUE)>>
    ELSE <<Guard("hits", "read", TRUE), Guard("misses", "read", TRUE)>>

\* The guards an operation takes, in the order of its code.  A temporary
\* guard (temp) is dropped at the end of its statement, the others at return.
\* get: entries.write(), then hits.write() or misses.write();
\* put, remove, clear: entries.write(), current_size.write();
\* size: current_size.read(); hit_rate: hits.read(), then misses.read().
LocksOf(op, hit) ==
    IF op = "get"
    THEN <<Guard("entries", "write", FALSE),
           Guard(IF hit THEN "hits" ELSE "misses", "write", TRUE)>>
    ELSE IF op \in {"put", "remove", "clear"}
    THEN <<Guard("entries", "write", FALSE), Guard("current_size", "write", FALSE)>>
    ELSE IF op = "size"
    THEN <<Guard("current_size", "read", TRUE)>>
    ELSE <<Guard("hits", "read", TRUE), Guard("misses", "read", TRUE)>>

\* the guards of a thread that outlive the statement that took them
Kept(held) == SelectSeq(held, LAMBDA g : ~g.temp)

\* parking_lot::RwLock: write() is granted when nobody holds a guard, the
\* caller included; read() when nobody holds a write guard
CanAcquire(th, g) ==
    \A u \in DOMAIN th : \A i \in 1..Len(th[u].held) :
        th[u].held[i].lock = g.lock => (g.mode = "read" /\ th[u].held[i].mode = "read")

LockThreads == {"t1", "t2"}
LockKeys == {"a", "b"}
LockSizes == {3, 9}

IdleLocker ==
    [pc |-> "idle", op |-> "none", key |-> "a", size |-> 0, script |-> << >>, held |-> << >>,
     current_size |-> None, seen |-> << >>]

InitLocks ==
    /\ index = IndexNew
    /\ storage = NoStorage
    /\ document_cache = NoCache
    /\ query_cache = NoCache
    /\ last = [op |-> "new"]
    /\ pre = [lru |-> LruNew(LruMaxSize)]
    /\ hist = << >>
    /\ ops = 0
    /\ txn = NoTxn
    /\ path = None
    /\ files = NoFiles
    /\ closed = FALSE
    /\ lru = LruNew(LruMaxSize)
    /\ interner = InternerNew
    /\ config = DefaultConfig
    /\ memory_manager = NoManager
    /\ threads = [t \in LockThreads |-> IdleLocker]

LocksFrame ==
    /\ pre' = [lru |-> lru]
    /\ UNCHANGED <<index, storage, document_cache, query_cache, hist, txn, path, files, closed,
                   interner, config, memory_manager>>

\* the cache after the operation's writes to entries, hits and misses;
\* current_size is written last
AfterEntries(c, th) ==
    LET done == IF th.op = "get" THEN LruGet(c, th.key)
                ELSE IF th.op = "put" THEN LruPut(c, th.key, th.size, th.size)
                ELSE IF th.op = "remove" THEN LruRemove(c, th.key)
                ELSE IF th.op = "clear" THEN LruClear(c)
                ELSE c
    IN [done EXCEPT !.current_size = c.current_size]

\* the value the operation writes to current_size, if it writes one
AfterSize(c, th) ==
    IF th.op = "put" THEN Some(LruPut(c, th.key, th.size, th.size).current_size)
    ELSE IF th.op = "remove" THEN Some(LruRemove(c, th.key).current_size)
    ELSE IF th.op = "clear" THEN Some(0)
    ELSE None

\* what a guard of the lock gives to read
Read(c, lock) ==
    IF lock = "current_size" THEN c.current_size
    ELSE IF lock = "hits" THEN c.hits
    ELSE IF lock = "misses" THEN c.misses
    ELSE Cardinality(DOMAIN c.entries)

\* a thread enters an operation: it is about to take its first guard
CallLocked(t, op, key, size) ==
    /\ ops < MaxLockOps
    /\ ops' = ops + 1
    /\ LocksFrame
    /\ lru' = lru
    /\ threads' = [threads EXCEPT ![t] =
                      [IdleLocker EXCEPT !.pc = "lock", !.op = op, !.key = key, !.size = size,
                                         !.script = LocksOf(op, key \in DOMAIN lru.entries)]]
    /\ last' = [op |-> "call", thread |-> t, name |-> op]

\* the thread takes its next guard, once the lock grants it; temporary guards
\* of the statement before are gone.  With the last guard it does its writes
\* to entries, hits and misses (get chooses hits or misses after its lookup)
Acquire(t) ==
    LET th == threads[t]
        g == IF th.op = "get" /\ Len(th.held) = 1
             THEN LocksOf("get", th.key \in DOMAIN lru.entries)[2]
             ELSE Head(th.script)
        released == [threads EXCEPT ![t].held = Kept(th.held)]
    IN /\ th.pc = "lock"
       /\ th.script # << >>
       /\ CanAcquire(released, g)
       /\ ops' = ops
       /\ LocksFrame
       /\ IF Len(th.script) = 1
          THEN /\ lru' = AfterEntries(lru, th)
               /\ threads' = [released EXCEPT ![t].held = Append(@, g),
                                              ![t].script = << >>,
                                              ![t].pc = "return",
                                              ![t].current_size = AfterSize(lru, th),
                                              ![t].seen = Append(@, Read(lru, g.lock))]
          ELSE /\ lru' = lru
               /\ threads' = [released EXCEPT ![t].held = Append(@, g),
                                              ![t].script = Tail(th.script),
                                              ![t].seen = Append(@, Read(lru, g.lock))]
       /\ last' = [op |-> "acquire", thread |-> t, lock |-> g.lock]

\* the operation writes current_size if it has to, drops its guards and returns
Return(t) ==
    LET th == threads[t]
    IN /\ th.pc = "return"
       /\ ops' = ops
       /\ LocksFrame
       /\ lru' = IF IsSome(th.current_size)
                 THEN [lru EXCEPT !.current_size = th.current_size.some] ELSE lru
       /\ threads' = [threads EXCEPT ![t] = IdleLocker]
       /\ last' = [op |-> th.op, thread |-> t, key |-> th.key, seen |-> th.seen]

\* LruCache::get
LockedGet(t, key) ==
    /\ threads[t].pc = "idle"
    /\ CallLocked(t, "get", key, 0)

\* LruCache::put
LockedPut(t, key, size) ==
    /\ threads[t].pc = "idle"
    /\ CallLocked(t, "put", key, size)

\* LruCache::remove
LockedRemove(t, key) ==
    /\ threads[t].pc = "idle"
    /\ CallLocked(t, "remove", key, 0)

\* LruCache::clear
LockedClear(t) ==
    /\ threads[t].pc = "idle"
    /\ CallLocked(t, "clear", "a", 0)

\* LruCache::size
LockedSize(t) ==
    /\ threads[t].pc = "idle"
    /\ CallLocked(t, "size", "a", 0)

\* LruCache::hit_rate
LockedHitRate(t) ==
    /\ threads[t].pc = "idle"
    /\ CallLocked(t, "hit_rate", "a", 0)

NextLocks ==
    \/ \E t \in LockThreads, key \in LockKeys : LockedGet(t, key)
    \/ \E t \in LockThreads, key \in LockKeys, size \in LockSizes : LockedPut(t, key, size)
    \/ \E t \in LockThreads, key \in LockKeys : LockedRemove(t, key)
    \/ \E t \in LockThreads : LockedClear(t)
    \/ \E t \in LockThreads : LockedSize(t)
    \/ \E t \in LockThreads : LockedHitRate(t)
    \/ \E t \in LockThreads : Acquire(t)
    \/ \E t \in LockThreads : Return(t)

SpecLocks == InitLocks /\ [][NextLocks]_vars

-----------------------------------------------------------------------------
(* A StringInterner driven through its own API                             *)

InternStrings == {<<"a">>, <<"b">>, <<"a", "b">>}
InternIds == 0..2

InitIntern ==
    /\ index = IndexNew
    /\ storage = NoStorage
    /\ document_cache = NoCache
    /\ query_cache = NoCache
    /\ last = [op |-> "new"]
    /\ pre = [interner |-> InternerNew]
    /\ hist = << >>
    /\ ops = 0
    /\ txn = NoTxn
    /\ path = None
    /\ files = NoFiles
    /\ closed = FALSE
    /\ lru = NoCache
    /\ interner = InternerNew
    /\ config = DefaultConfig
    /\ threads = NoThreads
    /\ memory_manager = NoManager

InternCalled ==
    /\ ops < MaxInternOps
    /\ ops' = ops + 1
    /\ pre' = [interner |-> interner]
    /\ UNCHANGED <<index, storage, document_cache, query_cache, txn, path, files, closed,
                   lru, config, threads, memory_manager>>

\* StringInterner::intern ; hist keeps every call that changes or issues ids
InternerIntern(s) ==
    /\ InternCalled
    /\ interner' = Intern(interner, s)
    /\ hist' = Append(hist, [op |-> "intern", s |-> s, id |-> InternId(interner, s)])
    /\ last' = [op |-> "intern", s |-> s, result |-> InternId(interner, s)]

\* StringInterner::get
InternerDoGet(id) ==
    /\ InternCalled
    /\ UNCHANGED <<interner, hist>>
    /\ last' = [op |-> "get", id |-> id, result |-> InternerGet(interner, id)]

\* StringInterner::get_id
InternerDoGetId(s) ==
    /\ InternCalled
    /\ UNCHANGED <<interner, hist>>
    /\ last' = [op |-> "get_id", s |-> s, result |-> InternerGetId(interner, s)]

\* StringInterner::clear
InternerDoClear ==
    /\ InternCalled
    /\ interner' = InternerClear(interner)
    /\ hist' = Append(hist, [op |-> "clear"])
    /\ last' = [op |-> "clear"]

NextIntern ==
    \/ \E s \in InternStrings : InternerIntern(s)
    \/ \E id \in InternIds : InternerDoGet(id)
    \/ \E s \in InternStrings : InternerDoGetId(s)
    \/ InternerDoClear

SpecIntern == InitIntern /\ [][NextIntern]_vars

-----------------------------------------------------------------------------
(* trigram.rs driven on its own                                            *)

TokenChars == {"a", "b", "c"}
\* the normalised tokens of 1 to MaxTokenLen characters
TokenPool == UNION {[1..n -> TokenChars] : n \in 1..MaxTokenLen}

InitTrigram ==
    /\ index = IndexNew
    /\ storage = NoStorage
    /\ document_cache = NoCache
    /\ query_cache = NoCache
    /\ last = [op |-> "new"]
    /\ pre = [index |-> IndexNew]
    /\ hist = << >>
    /\ ops = 0
    /\ txn = NoTxn
    /\ path = None
    /\ files = NoFiles
    /\ closed = FALSE
    /\ lru = NoCache
    /\ interner = InternerNew
    /\ config = DefaultConfig
    /\ threads = NoThreads
    /\ memory_manager = NoManager

\* generate_trigrams(token)
GenerateTrigrams(token) ==
    /\ last' = [op |-> "generate_trigrams", token |-> token,
                windows |-> TrigramWindows(token), result |-> generate_trigrams(token)]
    /\ UNCHANGED <<index, storage, document_cache, query_cache, pre, hist, ops, txn, path,
                   files, closed, lru, interner, config, threads, memory_manager>>

NextTrigram == \E token \in TokenPool : GenerateTrigrams(token)

SpecTrigram == InitTrigram /\ [][NextTrigram]_vars

-----------------------------------------------------------------------------
(* A storage engine and one transaction handle at a time                   *)

KeyPool == {<<"k">>, <<"j">>}
ValuePool == {<<"v">>, <<"w", "w">>}

InitTxn(kind) ==
    /\ index = IndexNew
    /\ storage = EngineNew(kind)
    /\ document_cache = NoCache
    /\ query_cache = NoCache
    /\ last = [op |-> "new"]
    /\ pre = [storage |-> EngineNew(kind)]
    /\ hist = << >>
    /\ ops = 0
    /\ txn = NoTxn
    /\ path = None
    /\ files = NoFiles
    /\ closed = FALSE
    /\ lru = NoCache
    /\ interner = InternerNew
    /\ config = DefaultConfig
    /\ threads = NoThreads
    /\ memory_manager = NoManager

TxnCalled ==
    /\ ops < MaxTxnOps
    /\ ops' = ops + 1
    /\ pre' = [storage |-> storage]
    /\ UNCHANGED <<index, document_cache, query_cache, hist, path, files, closed, lru, interner, config, threads, memory_manager>>

\* StorageEngine::put, outside any transaction
StoragePut(key, value) ==
    /\ TxnCalled
    /\ txn.state # "open"
    /\ storage' = EnginePut(storage, key, value)
    /\ last' = [op |-> "put", key |-> key, value |-> value, result |-> "Ok"]
    /\ UNCHANGED txn

\* StorageEngine::begin_transaction
StorageBegin ==
    /\ TxnCalled
    /\ txn.state # "open"
    /\ txn' = BeginTransaction(storage)
    /\ last' = [op |-> "begin_transaction", result |-> "Ok"]
    /\ UNCHANGED storage

\* StorageTransaction::put
StorageTxnPut(key, value) ==
    /\ TxnCalled
    /\ txn.state = "open"
    /\ txn' = TxnPut(txn, key, value)
    /\ last' = [op |-> "txn_put", key |-> key, value |-> value, result |-> "Ok"]
    /\ UNCHANGED storage

\* StorageTransaction::delete
StorageTxnDelete(key) ==
    /\ TxnCalled
    /\ txn.state = "open"
    /\ txn' = TxnDelete(txn, key)
    /\ last' = [op |-> "txn_delete", key |-> key, result |-> "Ok"]
    /\ UNCHANGED storage

\* StorageTransaction::get
StorageTxnGet(key) ==
    /\ TxnCalled
    /\ txn.state = "open"
    /\ last' = [op |-> "txn_get", key |-> key, result |-> TxnGet(txn, storage, key)]
    /\ UNCHANGED <<storage, txn>>

\* StorageTransaction::exists
StorageTxnExists(key) ==
    /\ TxnCalled
    /\ txn.state = "open"
    /\ last' = [op |-> "txn_exists", key |-> key, result |-> TxnExists(txn, storage, key)]
    /\ UNCHANGED <<storage, txn>>

\* StorageTransaction::commit
StorageTxnCommit ==
    /\ TxnCalled
    /\ txn.state = "open"
    /\ \/ /\ storage' = TxnCommit(txn, storage)
          /\ txn' = [txn EXCEPT !.state = "committed"]
          /\ last' = [op |-> "txn_commit", result |-> "Ok"]
       \/ \* the SQLite transaction failed and was rolled back
          /\ txn.kind = "sqlite"
          /\ storage' = storage
          /\ txn' = [txn EXCEPT !.state = "failed"]
          /\ last' = [op |-> "txn_commit", result |-> "Err"]

\* StorageTransaction::abort
StorageTxnAbort ==
    /\ TxnCalled
    /\ txn.state = "open"
    /\ txn' = [txn EXCEPT !.state = "aborted"]
    /\ last' = [op |-> "txn_abort", result |-> "Ok"]
    /\ UNCHANGED storage

NextTxn ==
    \/ \E key \in KeyPool, value \in ValuePool : StoragePut(key, value)
    \/ StorageBegin
    \/ \E key \in KeyPool, value \in ValuePool : StorageTxnPut(key, value)
    \/ \E key \in KeyPool : StorageTxnDelete(key)
    \/ \E key \in KeyPool : StorageTxnGet(key)
    \/ \E key \in KeyPool : StorageTxnExists(key)
    \/ StorageTxnCommit
    \/ StorageTxnAbort

SpecTxn == (\E kind \in EngineKinds : InitTxn(kind)) /\ [][NextTxn]_vars


-----------------------------------------------------------------------------
(* Observations of an index through its public API                         *)

ObsQueries == {<<"a", "b">>, <<"b", "a">>, <<"a">>, <<"b">>, <<"a", "b", " ", "b">>}
ObsOptions == {None, Some(SearchOptions(0, 0, 1)), Some(SearchOptions(1, 0, 100))}

Observe(idx) ==
    [count |-> document_count(idx),
     documents |-> [id \in IndexDocIds |-> IndexGetDocument(idx, id)],
     results |-> [k \in ObsQueries \X ObsOptions |-> IndexSearch(idx, k[1], k[2])]]

ResultIds(results) == {results[i].document.id : i \in 1..Len(results)}

\* ids whose most recent add in hist has no later successful remove
LiveIds ==
    {hist[i].document.id : i \in {n \in 1..Len(hist) :
        /\ hist[n].op = "add_document"
        /\ \A m \in (n + 1)..Len(hist) :
              ~(hist[m].op = "remove_document" /\ hist[m].doc_id = hist[n].document.id)}}

-----------------------------------------------------------------------------
(* Properties of the facade (Spec)                                         *)

\* C1: a search through the facade returns what the ranker computes on the
\* index as it is when the search is made, never a result computed before a
\* later add, batch add, remove or clear.
C1_SearchIsFresh ==
    last.op = "search" => last.result = IndexSearch(index, last.query, last.options)

\* C2: when add_document or remove_document has returned, the query cache
\* holds no entry.
C2_QueryCacheEmptyAfterMutation ==
    (/\ last.op \in {"add_document", "remove_document"}
     /\ last.result = "Ok"
     /\ HasCache(query_cache))
    => query_cache.entries = EmptyMap

\* C5: remove_document of an id that is not in the document map returns
\* DocumentNotFound and leaves the index (documents, inverted index, trigram
\* index, interner), the storage engine and the document cache as they were.
C5_RemoveAbsentChangesNothing ==
    (/\ last.op = "remove_document"
     /\ ~IsSome(IndexGetDocument(pre.index, last.doc_id)))
    => /\ last.result = "DocumentNotFound"
       /\ index = pre.index
       /\ storage = pre.storage
       /\ document_cache = pre.document_cache

C5_Witness ==
    /\ last.op = "remove_document"
    /\ last.result = "DocumentNotFound"
    /\ HasStorage
    /\ storage.data # EmptyMap
    /\ document_count(index) > 0
    /\ last.doc_id \in DOMAIN index.interner.string_to_id

\* C6: once remove_document(d) has succeeded no search returns d until d is
\* added again: every document of a search result is in the document map.
C6_RemovedNeverReturned ==
    last.op = "search"
    => \A i \in 1..Len(last.result) :
          IsSome(IndexGetDocument(index, last.result[i].document.id))

\* the documents an add or a batch add leaves under their ids
AddedDocuments ==
    IF last.op = "add_document" THEN {last.document}
    ELSE {last.documents[i] : i \in {n \in 1..Len(last.documents) :
            \A m \in (n + 1)..Len(last.documents) :
                last.documents[m].id # last.documents[n].id}}

\* C9: with a storage engine, once add_document or add_documents_batch has
\* returned Ok the engine's get of doc:<id> returns the encoded document, for
\* every document added.
C9_StoredAfterAdd ==
    (/\ HasStorage
     /\ last.op \in {"add_document", "add_documents_batch"}
     /\ last.result = "Ok")
    => \A document \in AddedDocuments :
          EngineGet(storage, DocKey(document.id)) = Some(EncodeDocument(document))

\* C10: when the storage write of add_document, add_documents_batch or
\* remove_document fails, the error is not returned with the index change
\* kept: the index answers as it did before the call.
C10_FailureRollsBack ==
    (/\ last.op \in {"add_document", "add_documents_batch", "remove_document"}
     /\ last.result = "Err")
    => Observe(index) = Observe(pre.index)

\* C11: after clear() and until the next add, document_count() is 0 and
\* get_document returns None for every id, with or without a storage engine.
C11_ClearedStaysEmpty ==
    (hist = << >> /\ last.op \in {"clear", "get_document"})
    => /\ document_count(index) = 0
       /\ last.op = "get_document" => last.result = None

\* C12: search, get_document and document_count are read-only: a call of one
\* of them leaves the index (documents, postings, interner) as it was, so
\* concurrent readers never overlap with a write of the index.
C12_ReadsLeaveIndex ==
    last.op \in {"search", "get_document"} => index = pre.index

-----------------------------------------------------------------------------
(* Properties of persistence (SpecPersist)                                 *)

\* C13: save_to_file(p) followed by open(p) yields an instance whose
\* document_count, get_document and search agree with the original's.
C13_SaveOpenRoundTrip ==
    (last.op = "open" /\ last.after_save)
    => Observe(index) = Observe(pre.index)

\* C14: once close() has returned, a further commit() or close() that meets
\* no I/O failure returns Ok and changes neither the storage contents nor the
\* in-memory state.
C14_AfterCloseNoOp ==
    (/\ last.op \in {"commit", "close"}
     /\ last.was_closed
     /\ last.result # "Err")
    => /\ last.result = "Ok"
       /\ Snapshot = pre

\* C21: an instance built with enable_background_ops false has no
\* memory-manager worker thread.
C21_NoWorkerWithoutBackgroundOps ==
    ~config.enable_background_ops
    => ~(HasManager(memory_manager) /\ memory_manager.worker # "none")

-----------------------------------------------------------------------------
(* Properties of the interner (SpecIntern)                                 *)

\* C22: string_to_id and id_to_string are mutual inverses of the same size;
\* get of the id intern returned is the string and get_id of it is the id;
\* intern of an interned string returns its id and changes nothing.
C22_MutualInverses ==
    /\ Cardinality(DOMAIN interner.string_to_id) = Cardinality(DOMAIN interner.id_to_string)
    /\ \A s \in DOMAIN interner.string_to_id :
          InternerGet(interner, interner.string_to_id[s]) = Some(s)
    /\ \A id \in DOMAIN interner.id_to_string :
          InternerGetId(interner, interner.id_to_string[id]) = Some(id)
    /\ last.op = "intern"
       => /\ InternerGet(interner, last.result) = Some(last.s)
          /\ InternerGetId(interner, last.s) = Some(last.result)
          /\ last.s \in DOMAIN pre.interner.string_to_id
             => /\ interner = pre.interner
                /\ last.result = pre.interner.string_to_id[last.s]
    /\ last.op = "get" /\ IsSome(last.result)
       => InternerGetId(interner, last.result.some) = Some(last.id)

\* intern of a string interned before, on an interner that was cleared earlier
C22_Witness ==
    /\ last.op = "intern"
    /\ last.s \in DOMAIN pre.interner.string_to_id
    /\ \E i \in 1..Len(hist) : hist[i].op = "clear"
    /\ InternerLen(interner) = 1

\* the calls of hist after its last clear
SinceClear ==
    LET clears == {i \in 1..Len(hist) : hist[i].op = "clear"}
        from == IF clears = {} THEN 1 ELSE (CHOOSE i \in clears : \A j \in clears : j <= i) + 1
    IN SubSeq(hist, from, Len(hist))

\* in calls, ids are dense from 0, increase in order of first interning, and
\* no id stands for two strings
DenseAndFresh(calls) ==
    /\ {calls[i].id : i \in 1..Len(calls)} = 0..(Cardinality({calls[i].s : i \in 1..Len(calls)}) - 1)
    /\ \A i, j \in 1..Len(calls) :
          /\ calls[i].id = calls[j].id <=> calls[i].s = calls[j].s
          /\ (i < j /\ \A k \in 1..(j - 1) : calls[k].s # calls[j].s)
             => calls[i].id < calls[j].id

\* C23 as stated: over every intern call of the session, clears included, ids
\* are dense from 0, increasing in order of first interning, and no id value
\* is issued for two different strings.
C23_NeverReused ==
    \A i, j \in 1..Len(hist) :
        (hist[i].op = "intern" /\ hist[j].op = "intern" /\ hist[i].id = hist[j].id)
        => hist[i].s = hist[j].s

\* C23 amended: over the intern calls since the last clear, ids are dense
\* from 0, increasing in order of first interning, no id value is issued for
\* two different strings, and the next id is the number of strings interned.
C23_DenseSinceClear ==
    /\ DenseAndFresh(SinceClear)
    /\ DOMAIN interner.id_to_string = 0..(interner.next_id - 1)
    /\ \A i \in 1..Len(SinceClear) :
          InternerGet(interner, SinceClear[i].id) = Some(SinceClear[i].s)

\* two strings interned after a clear that followed an earlier intern
C23_Witness ==
    /\ Len(SinceClear) = 2
    /\ Len(hist) = 4
    /\ hist[1].op = "intern"
    /\ SinceClear[1].id = 0
    /\ SinceClear[2].id = 1
    /\ hist[1].s # SinceClear[1].s

-----------------------------------------------------------------------------
(* Properties of the trigram generator (SpecTrigram)                       *)

\* C24 as stated: a normalised token of n characters has exactly n windows
\* of 3 characters over its padded form, and at most n distinct trigrams.
C24_WindowsEqualLength ==
    last.op = "generate_trigrams"
    => /\ Len(last.windows) = Len(last.token)
       /\ Cardinality(last.result) <= Len(last.token)

\* C24 amended: a normalised token of n characters has exactly n + 1 windows
\* (the padded form "$$" token "$" has n + 3 characters), the trigram set is
\* the set of these windows and has at most n + 1 elements.
C24_WindowsLengthPlusOne ==
    last.op = "generate_trigrams"
    => /\ Len(last.windows) = Len(last.token) + 1
       /\ last.result = {last.windows[i] : i \in 1..Len(last.windows)}
       /\ Cardinality(last.result) <= Len(last.token) + 1
       /\ last.windows[1] = <<"$", "$", last.token[1]>>
       /\ last.windows[Len(last.windows)][3] = "$"

\* "aaaa": five windows, "aaa" twice, four distinct trigrams
C24_Witness ==
    /\ last.op = "generate_trigrams"
    /\ last.token = <<"a", "a", "a", "a">>
    /\ Len(last.windows) = 5
    /\ Cardinality(last.result) = 4

-----------------------------------------------------------------------------
(* Properties of the LRU (SpecLru)                                         *)

\* C15: after any sequence of get, put, remove and clear,
\* current_size <= max_size + the size of the most recent put.
C15_SizeBound ==
    last.op = "put" => lru.current_size <= lru.max_size + last.size

\* the keys the last call removed from the cache
Evicted == (DOMAIN pre.lru.entries) \ (DOMAIN lru.entries)

\* the entries of the cache before the call that may be evicted
Evictable == {k \in DOMAIN pre.lru.entries : pre.lru.entries[k].ref_count = 0}

SizeOfKeys(c, keys) == SeqSum([i \in 1..Len(SetToSeq(keys)) |-> c.entries[SetToSeq(keys)[i]].size])

\* put of a new key that takes the total over max_size
PutOverflows ==
    /\ last.op = "put"
    /\ last.key \notin DOMAIN pre.lru.entries
    /\ pre.lru.current_size + last.size > pre.lru.max_size

\* C29: a put of a new key that would exceed max_size evicts unpinned
\* entries only, oldest last access first, no more of them than needed to
\* reach current_size <= max_size - size (all of them when that is not
\* reached), and then inserts the new entry.
C29_EvictOldestUnpinned ==
    PutOverflows
    => /\ Evicted \subseteq Evictable
       /\ \A e \in Evicted, u \in Evictable \ Evicted :
             pre.lru.entries[e].last_access < pre.lru.entries[u].last_access
       /\ \/ Evictable \subseteq Evicted
          \/ pre.lru.current_size - SizeOfKeys(pre.lru, Evicted) <= pre.lru.max_size - last.size
       /\ \A e \in Evicted :
             (\A o \in Evicted : pre.lru.entries[o].last_access <= pre.lru.entries[e].last_access)
             => pre.lru.current_size - SizeOfKeys(pre.lru, Evicted \ {e})
                   > pre.lru.max_size - last.size
       /\ DOMAIN lru.entries = ((DOMAIN pre.lru.entries) \ Evicted) \cup {last.key}
       /\ lru.entries[last.key].size = last.size
       /\ lru.entries[last.key].ref_count = 0
       /\ \A k \in (DOMAIN pre.lru.entries) \ Evicted : lru.entries[k] = pre.lru.entries[k]
       /\ lru.current_size = pre.lru.current_size - SizeOfKeys(pre.lru, Evicted) + last.size

\* the oldest unpinned entry went, a younger unpinned one stayed
C29_Witness ==
    /\ PutOverflows
    /\ Evicted # {}
    /\ Evictable \ Evicted # {}

\* a pinned entry older than the evicted one stayed, and the target was missed
C29_WitnessPinned ==
    /\ PutOverflows
    /\ \E e \in Evicted, p \in (DOMAIN pre.lru.entries) \ Evictable :
          pre.lru.entries[p].last_access < pre.lru.entries[e].last_access
    /\ lru.current_size > lru.max_size


-----------------------------------------------------------------------------
(* Properties of the memory manager (SpecMem)                              *)

\* 100 * usage > pct * max_memory, computed without loss
AbovePercent(usage, max_memory, pct) ==
    DigitsLess(WideMul(max_memory, pct), WideMul(usage, 100), U64Digits + 1)

\* the level of a usage by its share of max_memory
LevelOfShare(usage, max_memory) ==
    IF AbovePercent(usage, max_memory, 95) THEN "Critical"
    ELSE IF AbovePercent(usage, max_memory, 80) THEN "High"
    ELSE IF AbovePercent(usage, max_memory, 50) THEN "Medium"
    ELSE "Low"

\* C30: after each sample of the worker the published pressure_level is Low
\* for a usage of at most 50% of max_memory, Medium up to 80%, High up to
\* 95% and Critical above, the usage being the one the sample read.
C30_LevelFollowsUsage ==
    last.op = "sample"
    => /\ memory_manager.worker = "check"
       /\ memory_manager.stats.current_usage = pre.memory_manager.current_usage
       /\ memory_manager.stats.pressure_level
            = LevelOfShare(pre.memory_manager.current_usage, memory_manager.max_memory)

\* the same, for the values of max_memory whose multiples by 95 fit in a u64
C30_LevelFollowsUsageNoOverflow ==
    (last.op = "sample" /\ ~MulOverflows(memory_manager.max_memory, 95))
    => /\ memory_manager.worker = "check"
       /\ memory_manager.stats.current_usage = pre.memory_manager.current_usage
       /\ memory_manager.stats.pressure_level
            = LevelOfShare(pre.memory_manager.current_usage, memory_manager.max_memory)

\* the samples taken so far, oldest first
Samples == SelectSeq(hist, LAMBDA h : h.op = "sample")

\* the class of the usage read at the latest sample, and at the one before
ClassNow == LevelOfShare(Samples[Len(Samples)].usage, memory_manager.max_memory)
ClassBefore ==
    IF Len(Samples) >= 2
    THEN LevelOfShare(Samples[Len(Samples) - 1].usage, memory_manager.max_memory)
    ELSE "Low"

\* the events the last step sent
Emitted ==
    SubSeq(memory_manager.events, Len(pre.memory_manager.events) + 1,
           Len(memory_manager.events))

PressureEvents(events) == SelectSeq(events, LAMBDA e : e.event = "PressureChanged")

\* C31: a sample sends PressureChanged exactly when the class of the usage
\* it read differs from the class at the previous sample (Low before the
\* first), once, carrying the new class.
C31_PressureChangedOnCrossing ==
    last.op = "sample"
    => /\ (PressureEvents(Emitted) # << >>) <=> (ClassNow # ClassBefore)
       /\ \A i \in 1..Len(PressureEvents(Emitted)) :
             PressureEvents(Emitted)[i].level = ClassNow

\* the same where no threshold overflows and update_stats was not called
\* between the samples
C31_OnCrossingWithoutUpdateStats ==
    (/\ last.op = "sample"
     /\ ~MulOverflows(memory_manager.max_memory, 95)
     /\ ~\E i \in 1..Len(memory_manager.events) :
            memory_manager.events[i].event = "StatsUpdated")
    => /\ (PressureEvents(Emitted) # << >>) <=> (ClassNow # ClassBefore)
       /\ \A i \in 1..Len(PressureEvents(Emitted)) :
             PressureEvents(Emitted)[i].level = ClassNow

\* no threshold overflows, and still C31 can fail
C31_HoldsWithoutOverflow ==
    ~MulOverflows(memory_manager.max_memory, 95) => C31_PressureChangedOnCrossing

\* floor(max_memory * 80 / 100), computed without loss
EightyPercent(max_memory) == SubSeq(DivDigits(WideMul(max_memory, 80), 100, U64Digits + 1, 0),
                                    1, U64Digits)

\* the usage the last step compared with max_memory: the one a sample read,
\* or the usage before allocate plus the size
UsageAtStep ==
    IF last.op = "sample" THEN pre.memory_manager.current_usage
    ELSE WrappingAdd(pre.memory_manager.current_usage, last.size)

\* MemoryExceeded and EvictionRequired among the events of the last step
LimitEvents == SelectSeq(Emitted, LAMBDA e : e.event \in {"MemoryExceeded", "EvictionRequired"})

\* what a step has to send for a usage above max_memory
ExpectedLimitEvents(usage, max_memory) ==
    <<[event |-> "MemoryExceeded", current |-> usage, max |-> max_memory],
      [event |-> "EvictionRequired",
       bytes_to_free |-> SubDigits(usage, EightyPercent(max_memory), 1, 0)]>>

LimitEventsFollowUsage ==
    /\ last.op = "allocate"
       => /\ ~AddOverflows(pre.memory_manager.current_usage, last.size)
          /\ memory_manager.current_usage = UsageAtStep
          /\ last.result = IF U64Less(memory_manager.max_memory, UsageAtStep)
                           THEN "false" ELSE "true"
    /\ LimitEvents = IF U64Less(memory_manager.max_memory, UsageAtStep)
                     THEN ExpectedLimitEvents(UsageAtStep, memory_manager.max_memory)
                     ELSE << >>

\* C32: a sample or an allocate that sees usage > max_memory sends
\* MemoryExceeded{usage, max_memory} and directly after it EvictionRequired
\* with bytes_to_free = usage - floor(max_memory * 80 / 100); neither is sent
\* for usage <= max_memory; allocate adds the size in both cases and returns
\* false exactly when the limit is exceeded.  (The sends of one sample are one
\* step here.)
C32_ExceededSendsBothEvents ==
    last.op \in {"sample", "allocate"} => LimitEventsFollowUsage

\* the same for the steps in which neither the multiples of max_memory nor
\* the addition of allocate leave the u64 range
C32_BothEventsWithoutOverflow ==
    (/\ last.op \in {"sample", "allocate"}
     /\ ~MulOverflows(memory_manager.max_memory, 95)
     /\ last.op = "allocate" => ~AddOverflows(pre.memory_manager.current_usage, last.size))
    => LimitEventsFollowUsage

\* every EvictionRequired sent so far has been answered: the cache is empty
\* or at least bytes_to_free bytes smaller than when the event was sent
EvictionsServed ==
    \A i \in 1..Len(hist) :
        \/ lru.entries = EmptyMap
        \/ hist[i].cache_size - lru.current_size >= hist[i].bytes_to_free

StopAt == IF \E i \in 1..Len(hist) : hist[i].op = "stop"
          THEN CHOOSE i \in 1..Len(hist) : hist[i].op = "stop" ELSE 0
StartAt == IF \E i \in 1..Len(hist) : hist[i].op = "start"
           THEN CHOOSE i \in 1..Len(hist) : hist[i].op = "start" ELSE 0

\* the number of samples the worker took after stop()
SamplesAfterStop ==
    Cardinality({i \in (StopAt + 1)..Len(hist) : hist[i].op = "sample"})

WorkerDone == memory_manager.worker \in {"exited", "panicked"}

\* after stop() at most one more sample, none when the worker was started
\* after stop()
AtMostOneSampleAfterStop ==
    /\ StopAt > 0 => SamplesAfterStop <= 1
    /\ (StopAt > 0 /\ StartAt > StopAt) => SamplesAfterStop = 0

\* stop() was called and the worker was started
StoppedAndStarted == StopAt > 0 /\ StartAt > 0

\* C34: after stop() a started worker takes at most one more sample and then
\* terminates, and a terminated worker takes no step and sends nothing; a
\* worker started after stop() exits without sampling.
C34_WorkerStopsAfterStop ==
    /\ []AtMostOneSampleAfterStop
    /\ StoppedAndStarted ~> WorkerDone
    /\ [](WorkerDone => []WorkerDone)

\* stop() reached the worker asleep: it sampled once more and exited
C34_Witness ==
    /\ WorkerDone
    /\ StartAt > 0
    /\ StopAt > StartAt
    /\ SamplesAfterStop = 1

-----------------------------------------------------------------------------
(* Properties of the page cache (SpecPages)                                *)

\* thread t is in get_page of a Redb or RocksDB engine, past a cache miss
InReadThrough(t) == KeepsReadGuard(storage.kind) /\ threads[t].pc # "idle"

\* C35: on Redb and RocksDB, get_page of a page that is stored but not cached
\* returns, with the page, and leaves it in the page cache.
C35_ReadThroughReturns ==
    /\ \A t \in PageThreads : InReadThrough(t) ~> (threads[t].pc = "idle")
    /\ [](\A t \in PageThreads :
            (/\ KeepsReadGuard(storage.kind)
             /\ last.op = "get_page" /\ last.thread = t
             /\ last.page_id \in DOMAIN storage.pages)
            => /\ IsSome(last.result)
               /\ CachedPage(storage, last.page_id) = last.result)

\* a caller waits for the write lock of page_cache while holding its read
\* guard itself
C35_SelfBlocked ==
    \E t \in PageThreads :
        /\ threads[t].pc = "insert"
        /\ t \in storage.readers

\* the PageRefs any caller holds for page_id
HeldRefs(page_id) ==
    {r \in UNION {threads[t].held : t \in PageThreads} : storage.refs[r].id = page_id}

\* every PageRef a caller was given is the one the page cache holds
CacheHoldsOnlyCopy ==
    \A page_id \in PageIds :
        \A r \in HeldRefs(page_id) : CachedPage(storage, page_id) = Some(r)

\* after a flush the page table holds what was written through any PageRef
FlushWritesHeldPages ==
    last.op = "flush"
    => \A page_id \in PageIds :
          \A r \in HeldRefs(page_id) : storage.pages[page_id] = storage.refs[r].data

\* C40: on Sled and SQLite, concurrent get_page calls for one uncached page
\* return the same PageRef: the page cache holds the only live copy, and what
\* is written through any returned PageRef is written by the next flush.
C40_OneSharedPageRef ==
    ~KeepsReadGuard(storage.kind) => (CacheHoldsOnlyCopy /\ FlushWritesHeldPages)

-----------------------------------------------------------------------------
(* Properties of the index (SpecIndex)                                     *)

\* C3: add_document of a document whose id is already indexed leaves the index
\* answering search, get_document and document_count as remove_document of
\* that id followed by add_document would; a token of the old version only no
\* longer retrieves the document.
C3_ReAddReplaces ==
    (/\ last.op = "add_document"
     /\ IndexRemoveOk(pre.index, last.document.id))
    => Observe(index) =
          Observe(IndexAddDocument(IndexRemoveDocument(pre.index, last.document.id),
                                   last.document))

\* C16: right after add_document, every query within edit distance 2 of a
\* token of the added document retrieves that document under default options.
C16_FuzzyRecall ==
    last.op = "add_document"
    => \A t \in DocumentTokens(pre.index, last.document), q \in ObsQueries :
          levenshtein(t, q) <= DefaultMaxDistance
          => last.document.id \in ResultIds(IndexSearch(index, q, None))

\* The options the ranking properties are checked under: the default, an
\* exact search cut to one result, and a threshold of 15.0 (15000 / 1000).
RankOptions ==
    {None, Some(SearchOptions(0, 0, 1)), Some(SearchOptions(1, 0, 100)),
     Some(SearchOptions(2, 15000, 100))}

OptionsOf(options) == IF IsSome(options) THEN options.some ELSE DefaultSearchOptions

\* doc ids that pass the distance filter with a score of at least the threshold
PassingIds(idx, query, o) ==
    LET scores == DocumentScores(idx,
                      FilterCandidates(
                          CandidateScores(idx, extract_tokens(query), o.max_distance, EmptyMap),
                          o.max_distance))
    IN {d \in DOMAIN scores : scores[d] * 1000 >= o.score_threshold * ScoreScale}

Min(a, b) == IF a <= b THEN a ELSE b

Ranked(results) ==
    \A i, j \in 1..Len(results) :
        i < j => /\ results[i].score >= results[j].score
                 /\ results[i].document.id # results[j].document.id
                 /\ results[i].score = results[j].score
                    => StrLess(results[i].document.id, results[j].document.id)

RankedAndCounted(results, limit, passing) ==
    /\ Ranked(results)
    /\ Len(results) = Min(limit, Cardinality(passing))

\* C17: a search result is sorted by score descending, ties by ascending id,
\* holds no document twice, and has min(limit, passing documents) entries.
C17_ResultsRanked ==
    \A q \in ObsQueries, options \in RankOptions :
        RankedAndCounted(IndexSearch(index, q, options), OptionsOf(options).limit,
                         PassingIds(index, q, OptionsOf(options)))

\* a tie broken by id, a strict order, a truncation and a threshold cut all occur
C17_Witness ==
    /\ Len(IndexSearch(index, <<"a", "b">>, None)) = 2
    /\ IndexSearch(index, <<"a", "b">>, None)[1].score
         = IndexSearch(index, <<"a", "b">>, None)[2].score
    /\ IndexSearch(index, <<"a", "b", " ", "b">>, None)[1].score
         > IndexSearch(index, <<"a", "b", " ", "b">>, None)[2].score
    /\ Len(IndexSearch(index, <<"a", "b">>, Some(SearchOptions(0, 0, 1)))) = 1
    /\ Len(IndexSearch(index, <<"a", "b", " ", "b">>, Some(SearchOptions(2, 15000, 100)))) = 1

\* the queries of ObsQueries, the empty query and a blank one
SoundQueries == ObsQueries \cup {<< >>, <<" ">>}

\* some query token is within max_distance of a token of the document
Matches(idx, query, document, max_distance) ==
    \E qt \in Range(extract_tokens(query)), c \in DocumentTokens(idx, document) :
        levenshtein(qt, c) <= max_distance

\* C18: every document search returns contains a token within max_distance of
\* a query token (an equal token when max_distance is 0), and a query without
\* tokens returns the empty sequence.
C18_ResultsMatch ==
    \A q \in SoundQueries, options \in RankOptions :
        /\ \A r \in Range(IndexSearch(index, q, options)) :
              Matches(index, q, r.document, OptionsOf(options).max_distance)
        /\ extract_tokens(q) = << >> => IndexSearch(index, q, options) = << >>

\* tokens of the fields of document that are named in fields
ListedTokens(fields, document) ==
    UNION {Range(extract_tokens(document.fields[n].text)) :
             n \in Range(fields) \cap DOMAIN document.fields}

\* tokens of document that occur in no field named in fields
UnlistedTerms(fields, document) ==
    UNION {Range(extract_tokens(document.fields[n].text)) : n \in DOMAIN document.fields}
        \ ListedTokens(fields, document)

PostingCount(idx, token, doc_id) == Count(get_documents_for_token(idx, token), doc_id)

\* every string that is a token of some posting of idx or of the document
KnownTokens(idx, document) ==
    DOMAIN idx.interner.string_to_id
        \cup UNION {Range(extract_tokens(document.fields[n].text)) : n \in DOMAIN document.fields}

\* set_indexed_fields replaced the field list and nothing else
SetFieldsOnly ==
    last.op = "set_indexed_fields"
    => index = [pre.index EXCEPT !.indexed_fields = last.fields]

\* a document with a new id is added while a field list is configured
AddsNewUnderFields ==
    /\ last.op = "add_document"
    /\ pre.index.indexed_fields # << >>
    /\ last.document.id \notin DOMAIN pre.index.interner.string_to_id

RECURSIVE AddEach(_, _)
\* add_document called on each document of the sequence in turn
AddEach(idx, documents) ==
    IF documents = << >> THEN idx
    ELSE AddEach(IndexAddDocument(idx, Head(documents)), Tail(documents))

\* C20: add_documents_batch(docs) leaves the whole index (documents, the order
\* of every inverted posting, trigram postings, interner) and hence every
\* search result equal to add_document on each document of docs in order.
C20_BatchEqualsSequence ==
    last.op = "add_documents_batch"
    => /\ index = AddEach(pre.index, last.documents)
       /\ Observe(index) = Observe(AddEach(pre.index, last.documents))

\* a batch with the same id twice, added to an index that already holds documents
C20_Witness ==
    /\ last.op = "add_documents_batch"
    /\ last.documents = <<DA, DA2>>
    /\ document_count(pre.index) > 0
    /\ IndexGetDocument(index, DocX) = Some(DA2)
    /\ \E t \in DOMAIN index.inverted_index : Len(index.inverted_index[t]) > 1

\* C25: every doc id of every inverted posting is a key of the document
\* map, and no inverted posting is empty.
C25_PostingsNameDocuments ==
    \A t \in DOMAIN index.inverted_index :
        /\ index.inverted_index[t] # << >>
        /\ \A d \in Range(index.inverted_index[t]) : d \in DOMAIN index.documents

\* a remove that emptied a posting and left another one non-empty
C25_Witness ==
    /\ last.op = "remove_document"
    /\ last.result = "Ok"
    /\ index.inverted_index # EmptyMap
    /\ DOMAIN index.inverted_index # DOMAIN pre.index.inverted_index

RECURSIVE IsSubsequence(_, _)
\* a is b with some entries left out, order kept
IsSubsequence(a, b) ==
    IF a = << >> THEN TRUE
    ELSE IF b = << >> THEN FALSE
    ELSE IF Head(a) = Head(b) THEN IsSubsequence(Tail(a), Tail(b))
    ELSE IsSubsequence(a, Tail(b))

\* the posting of token id t in idx, empty when there is none
PostingOf(idx, t) == IF t \in DOMAIN idx.inverted_index THEN idx.inverted_index[t] ELSE << >>

\* C26: a successful remove_document(d) leaves the trigram index and the
\* interner unchanged, removes d from the document map and from every
\* posting, and keeps the other entries of every posting, in their order.
C26_RemoveFrame ==
    (last.op = "remove_document" /\ last.result = "Ok")
    => /\ index.trigram_index = pre.index.trigram_index
       /\ index.interner = pre.index.interner
       /\ index.indexed_fields = pre.index.indexed_fields
       /\ index.documents
            = MapDrop(pre.index.documents, pre.index.interner.string_to_id[last.doc_id])
       /\ \A t \in DOMAIN pre.index.inverted_index :
             /\ pre.index.interner.string_to_id[last.doc_id] \notin Range(PostingOf(index, t))
             /\ IsSubsequence(PostingOf(index, t), pre.index.inverted_index[t])
             /\ \A e \in Range(pre.index.inverted_index[t])
                        \ {pre.index.interner.string_to_id[last.doc_id]} :
                   Count(PostingOf(index, t), e) = Count(pre.index.inverted_index[t], e)
       /\ DOMAIN index.inverted_index \subseteq DOMAIN pre.index.inverted_index

\* x removed from a posting that also names y and z
C26_Witness ==
    /\ last.op = "remove_document"
    /\ last.result = "Ok"
    /\ \E t \in DOMAIN index.inverted_index :
          /\ Cardinality(Range(index.inverted_index[t])) = 2
          /\ Len(pre.index.inverted_index[t]) = 3
    /\ index.trigram_index # EmptyMap

\* C27: adding the identical document a second time, directly after the
\* first add, changes no search result: same order and same scores for
\* every query.
C27_SecondAddKeepsResults ==
    (/\ last.op = "add_document"
     /\ Len(hist) >= 2
     /\ hist[Len(hist) - 1] = AddOp(last.document))
    => \A q \in ObsQueries, o \in ObsOptions :
          IndexSearch(index, q, o) = IndexSearch(pre.index, q, o)

\* strings that name a posting of idx
PostedTokens(idx) ==
    {idx.interner.id_to_string[t] :
        t \in DOMAIN idx.inverted_index \cap DOMAIN idx.interner.id_to_string}

\* the pairs (position of a query token, indexed token) with trigram overlap
\* of at least 0.2 and edit distance of at most max_distance
ScoringPairs(idx, query_tokens, max_distance) ==
    {p \in (1..Len(query_tokens)) \X PostedTokens(idx) :
        /\ OverlapOk(Cardinality(generate_trigrams(query_tokens[p[1]])
                                    \cap generate_trigrams(p[2])),
                     Max(Cardinality(generate_trigrams(query_tokens[p[1]])),
                         Cardinality(generate_trigrams(p[2]))))
        /\ levenshtein(query_tokens[p[1]], p[2]) <= max_distance}

PairScore(query_tokens, p) ==
    TokenScore(CandidateEntry(generate_trigrams(query_tokens[p[1]]), generate_trigrams(p[2]),
                              levenshtein(query_tokens[p[1]], p[2])))

\* the sum of the pair scores of the pairs whose token has d in its posting
SumOverPairs(idx, query_tokens, pairs, d) ==
    SeqSum([i \in 1..Len(pairs) |->
              IF d \in Range(get_documents_for_token(idx, pairs[i][2]))
              THEN PairScore(query_tokens, pairs[i]) ELSE 0])

PairQueries == {<<"a", "b">>, <<"b">>, <<"a", "b", " ", "b">>}
PairTokens == {<<"a">>, <<"a", "b">>}
PairOptions == {SearchOptions(0, 0, 100), SearchOptions(1, 0, 100)}

ScoreOf(results, d) ==
    SeqSum([i \in 1..Len(results) |-> IF results[i].document.id = d THEN results[i].score ELSE 0])

\* adding a token to the query never removes a document (threshold 0)
C28_LongerQueryKeepsDocuments ==
    \A q \in PairQueries, o \in PairOptions, t \in PairTokens :
        ResultIds(search_internal(index, q, o))
            \subseteq ResultIds(search_internal(index, q \o <<" ">> \o t, o))

\* C28: every query token is scored on its own: a document's score is the
\* sum of the token scores over all pairs (query token, indexed token) that
\* pass the overlap and distance tests and whose token the document holds,
\* and a query extended by one more token returns every document the
\* shorter query returns (threshold 0).
C28_ScoreIsSumOverPairs ==
    /\ \A q \in PairQueries, o \in PairOptions :
        \A d \in IndexDocIds :
              ScoreOf(search_internal(index, q, o), d)
                = SumOverPairs(index, extract_tokens(q),
                               SetToSeq(ScoringPairs(index, extract_tokens(q), o.max_distance)), d)
    /\ C28_LongerQueryKeepsDocuments

\* C4: on an empty index, add(d); remove(d.id); add(d') with the same id
\* answers every search, get_document and document_count as add(d') alone
\* on an empty index with the same field list.
C4_AddRemoveAdd ==
    (/\ Len(hist) = 3
     /\ last.op = "add_document"
     /\ hist[1].op = "add_document"
     /\ hist[2] = RemoveOp(hist[1].document.id)
     /\ hist[3].op = "add_document"
     /\ hist[3].document.id = hist[1].document.id)
    => Observe(index)
         = Observe(IndexAddDocument(set_indexed_fields(IndexNew, index.indexed_fields),
                                    hist[3].document))

C4_Witness ==
    /\ ops = 3
    /\ hist = <<AddOp(DA), RemoveOp(DocX), AddOp(DA2)>>
    /\ index # IndexAddDocument(IndexNew, DA2)
    /\ ResultIds(IndexSearch(index, <<"b", "a">>, None)) = {DocX}
    /\ find_candidate_tokens(index, <<"a", "b">>) # {}

\* The ranker alone: every document Index::search returns is in the document
\* map and its latest add has no later remove, whatever stale token ids the
\* trigram index still holds.
IndexSearchReturnsLiveDocuments ==
    \A k \in ObsQueries \X ObsOptions :
        LET results == IndexSearch(index, k[1], k[2])
        IN \A i \in 1..Len(results) :
              /\ results[i].document.id \in LiveIds
              /\ IndexGetDocument(index, results[i].document.id) = Some(results[i].document)

-----------------------------------------------------------------------------
(* Properties of a transaction handle (SpecTxn)                            *)

HasIssued(key) == \E i \in 1..Len(txn.issued) : txn.issued[i].key = key

\* what the handle's writes make of key: the last put's value, None after delete
IssuedValue(key) ==
    LET n == CHOOSE i \in 1..Len(txn.issued) :
                /\ txn.issued[i].key = key
                /\ \A m \in (i + 1)..Len(txn.issued) : txn.issued[m].key # key
    IN IF txn.issued[n].op = "put" THEN Some(txn.issued[n].value) ELSE None

\* C7: a MemoryTransaction or SledTransaction reads its own uncommitted
\* writes: after put(k, v) get(k) is v and exists(k) is true, after delete(k)
\* get(k) is None and exists(k) is false.
C7_ReadYourWrites ==
    (/\ txn.state = "open"
     /\ txn.kind \in {"memory", "sled"}
     /\ last.op \in {"txn_get", "txn_exists"}
     /\ HasIssued(last.key))
    => last.result = IF last.op = "txn_get" THEN IssuedValue(last.key)
                     ELSE IsSome(IssuedValue(last.key))

\* C8: while a transaction is open the engine shows none of its writes, and
\* once commit has returned Ok the engine shows all of them.
C8_CommitVisibility ==
    /\ txn.state = "open" => storage.data = txn.begun
    /\ (last.op = "txn_commit" /\ last.result = "Ok")
       => \A key \in KeyPool :
             HasIssued(key) => EngineGet(storage, key) = IssuedValue(key)


-----------------------------------------------------------------------------
(* Properties of the MemoryStorageEngine statistics (SpecEngine)           *)

RECURSIVE SumOfValueLengths(_)
SumOfValueLengths(data) ==
    IF DOMAIN data = {} THEN 0
    ELSE LET k == CHOOSE x \in DOMAIN data : TRUE
         IN Len(data[k]) + SumOfValueLengths(MapDrop(data, k))

\* C36: whenever no put or delete is in progress, stats().key_count is the
\* number of stored keys and stats().total_value_size the sum of the stored
\* values' lengths, and no counter was ever taken below zero, whatever the two
\* threads called and however their calls interleaved.
C36_StatsMatchData ==
    /\ ~storage.underflow
    /\ storage.writer = "none" =>
          /\ storage.stats.key_count = Cardinality(DOMAIN storage.data)
          /\ storage.stats.total_value_size = SumOfValueLengths(storage.data)

\* a delete of a key that was not stored has returned after at least two
\* other writes, and one key with a value of one byte is stored
C36_Witness ==
    /\ last.op = "delete"
    /\ ~last.removed
    /\ storage.writer = "none"
    /\ storage.stats.write_count >= 3
    /\ storage.stats.key_count = 1
    /\ storage.stats.total_value_size = 1

-----------------------------------------------------------------------------
(* Properties of the LRU with sizes of any width (SpecLruSized)            *)

C37_SmallSumUndercounted ==
    /\ config.overflow_checks
    /\ lru.current_size < SizeOfKeys(lru, DOMAIN lru.entries)
    /\ SizeOfKeys(lru, DOMAIN lru.entries) <= LruMaxSize

\* the entries that had been returned by get before the last call
Pinned == {k \in DOMAIN pre.lru.entries : pre.lru.entries[k].ref_count > 0}

\* C38: a successful get(k) adds one to the entry's ref count; no call takes a
\* ref count down; an entry with a ref count is in the cache after every call
\* but remove(k) and clear, which delete it, and put(k) leaves its ref count
\* as it was.
C38_PinnedEntriesStay ==
    /\ (last.op = "get" /\ last.key \in DOMAIN pre.lru.entries)
          => /\ last.key \in DOMAIN lru.entries
             /\ lru.entries[last.key].ref_count = pre.lru.entries[last.key].ref_count + 1
    /\ \A k \in (DOMAIN pre.lru.entries) \cap (DOMAIN lru.entries) :
          lru.entries[k].ref_count >= pre.lru.entries[k].ref_count
    /\ \A k \in Pinned :
          IF last.op = "clear" \/ (last.op = "remove" /\ last.key = k)
          THEN k \notin DOMAIN lru.entries
          ELSE /\ k \in DOMAIN lru.entries
               /\ (last.op = "put" /\ last.key = k)
                     => lru.entries[k].ref_count = pre.lru.entries[k].ref_count

\* a put had to evict: the oldest entry had been returned by get and stayed,
\* a younger one went
C38_Witness ==
    /\ PutOverflows
    /\ \E p \in Pinned, e \in Evicted :
          /\ \A o \in DOMAIN pre.lru.entries :
                pre.lru.entries[p].last_access <= pre.lru.entries[o].last_access
          /\ p \in DOMAIN lru.entries
          /\ e \notin Pinned

\* put on a key that had been returned by get: the ref count is kept
C38_WitnessPutExisting ==
    /\ last.op = "put"
    /\ last.key \in Pinned
    /\ lru.entries[last.key].ref_count > 0
    /\ lru.entries[last.key].size # pre.lru.entries[last.key].size

-----------------------------------------------------------------------------
(* Properties of the LruCache locks (SpecLocks)                            *)

\* the thread is inside an operation and its next step cannot be taken
Waiting(t) ==
    /\ threads[t].pc = "lock"
    /\ ~CanAcquire([threads EXCEPT ![t].held = Kept(threads[t].held)],
                   IF threads[t].op = "get" /\ Len(threads[t].held) = 1
                   THEN LocksOf("get", threads[t].key \in DOMAIN lru.entries)[2]
                   ELSE Head(threads[t].script))

\* the locks a thread holds, in the order it took them
HeldLocks(t) == [i \in 1..Len(threads[t].held) |-> threads[t].held[i].lock]

\* no thread holds a guard of current_size in write mode
SizeSettled ==
    \A t \in LockThreads : \A i \in 1..Len(threads[t].held) :
        threads[t].held[i].lock = "current_size" => threads[t].held[i].mode = "read"

\* some thread inside an operation can take its next step
SomeThreadRuns ==
    (\E t \in LockThreads : threads[t].pc # "idle")
       => \E t \in LockThreads : threads[t].pc # "idle" /\ ~Waiting(t)

\* no thread holds two of current_size, hits and misses
OneCounterLock ==
    \A t \in LockThreads :
        Cardinality({i \in 1..Len(HeldLocks(t)) : HeldLocks(t)[i] # "entries"}) <= 1

\* whoever can read current_size finds the sum of the sizes of the entries
SizeUpdatedWithEntries ==
    SizeSettled => lru.current_size = SizeOfKeys(lru, DOMAIN lru.entries)

\* C39 as stated: calls from two threads never deadlock; every operation,
\* size and hit_rate included, holds entries before it holds current_size,
\* hits or misses, and never two of these; the updates of entries and
\* current_size are atomic.
C39_EntriesLockFirst ==
    /\ SomeThreadRuns
    /\ \A t \in LockThreads : HeldLocks(t) # << >> => HeldLocks(t)[1] = "entries"
    /\ OneCounterLock
    /\ SizeUpdatedWithEntries

\* C39 amended: calls from two threads never deadlock; a thread that holds
\* entries took it before any other lock (get, put, remove, clear), size and
\* hit_rate hold current_size, hits or misses without entries; no thread
\* holds two of these; the updates of entries and current_size are atomic.
C39_NoDeadlock ==
    /\ SomeThreadRuns
    /\ \A t \in LockThreads :
          /\ (\E i \in 1..Len(HeldLocks(t)) : HeldLocks(t)[i] = "entries")
                => HeldLocks(t)[1] = "entries"
          /\ threads[t].op \in {"get", "put", "remove", "clear"}
                => (HeldLocks(t) # << >> => HeldLocks(t)[1] = "entries")
          /\ threads[t].op \in {"size", "hit_rate"}
                => \A i \in 1..Len(HeldLocks(t)) : HeldLocks(t)[i] # "entries"
    /\ OneCounterLock
    /\ SizeUpdatedWithEntries

\* one thread holds entries and waits for current_size while the other reads
\* current_size; the entries are already counted
C39_Witness ==
    /\ \E t \in LockThreads : Waiting(t) /\ HeldLocks(t) = <<"entries">>
    /\ \E t \in LockThreads : HeldLocks(t) = <<"current_size">> /\ threads[t].op = "size"
    /\ lru.current_size > 0

=============================================================================
